---- MODULE Spec2Model ----
(***************************************************************************)
(* Verification model of the invoicing system's core: the tiered price     *)
(* resolver (src/utils/helpers.ts, findPriceForProduct / findPriceInTiers),*)
(* the serial number generator (generateCustomerSerialNumber) and the      *)
(* invoice store the editing sessions share (src/App.tsx, services/db.ts). *)
(***************************************************************************)
EXTENDS Integers, Sequences, FiniteSets, TLC

(***************************************************************************)
(* JavaScript values.  An optional string is a string or Undef; an         *)
(* optional number or array is None or Some(v).  `if (x)` and `!x` on a    *)
(* string are truthiness tests: undefined and '' are both falsy.           *)
(***************************************************************************)
Undef == "undefined"
Truthy(s) == s # Undef /\ s # ""
None == <<>>
Some(v) == <<v>>

(***************************************************************************)
(* Bounds and input domains.                                               *)
(***************************************************************************)
MaxRules == 2
MaxTiers == 2
MaxQuantity == 3
MaxRequestQuantity == 2

RequestProductIds == {"P1"}
CustomerIds == {Undef, "C9"}
PriceCategories == {Undef, "industry"}
RequestSpecifications == {Undef, "", "A1", "B2"}
TierPrices == {80, 100}
BasePrices == {50}

\* types.ts PricingTier: minQuantity, optional maxQuantity, price
PricingTier == [minQuantity : 1..MaxQuantity,
                maxQuantity : {None} \cup {Some(n) : n \in 1..MaxQuantity},
                price : TierPrices]

SeqsUpTo(S, n) == UNION {[1..k -> S] : k \in 0..n}

\* types.ts PricingRule (id and timestamps are not read by the resolver)
MkRule(p, a, c, k, s, pr) ==
    [productId |-> p, isActive |-> a, customerId |-> c, priceCategory |-> k,
     specification |-> s, basePrice |-> pr.basePrice, tiers |-> pr.tiers]

\* The base price and tiers the rules of the model carry: no tiers, one open
\* tier from quantity 2, a missing tiers field, and the pricing of the rules
\* the resolver must not use.
PricingEmpty == [basePrice |-> 300, tiers |-> Some(<<>>)]
PricingTiered ==
    [basePrice |-> 500,
     tiers |-> Some(<<[minQuantity |-> 2, maxQuantity |-> None, price |-> 80]>>)]
PricingMissing == [basePrice |-> 400, tiers |-> None]
PricingUnused ==
    [basePrice |-> 700,
     tiers |-> Some(<<[minQuantity |-> 1, maxQuantity |-> None, price |-> 100]>>)]

\* The rules a list is drawn from: active rules of P1 in every scope, active
\* rules whose specification is the empty string, active rules without a tiers
\* field, inactive rules of P1 and rules of another product.
RuleInputs ==
    {MkRule("P1", TRUE, c, k, s, pr) :
        c \in CustomerIds, k \in PriceCategories, s \in {Undef, "A1"},
        pr \in {PricingEmpty, PricingTiered}}
    \cup {MkRule("P1", TRUE, c, Undef, "", PricingEmpty) : c \in CustomerIds}
    \cup {MkRule("P1", TRUE, c, Undef, Undef, PricingMissing) : c \in CustomerIds}
    \cup {MkRule("P1", FALSE, c, Undef, Undef, PricingUnused) : c \in CustomerIds}
    \cup {MkRule("P2", TRUE, Undef, k, Undef, PricingUnused) : k \in PriceCategories}

Requests == [productId : RequestProductIds,
             quantity : 1..MaxRequestQuantity,
             specification : RequestSpecifications,
             customerId : CustomerIds,
             customerPriceCategory : PriceCategories]

NoCall == [called |-> FALSE]

VARIABLES
    pricingRules,   \* App state: the pricing rules handed to the resolver
    priceCall,      \* the last findPriceForProduct call: its arguments and result
    tierList,       \* a rule's tiers handed to findPriceInTiers
    tierCall,       \* the last findPriceInTiers call: its arguments and result
    priorInvoices, \* the prior invoices handed to generateCustomerSerialNumber
    serialCall,     \* the last generateCustomerSerialNumber call: arguments and result
    invoiceDocs,    \* db.ts: the documents of the invoices collection
    invoices,       \* App state of each session: the last snapshot delivered to it
    currentInvoice, \* App state of each session: the invoice open in the editor
    view,           \* App state of each session: the screen shown
    savedSerials,   \* history: every serial ever written to the store for a customer
    user,           \* App state of each session: the logged-in user, or null
    isLoading,      \* App state of each session: no snapshot of the invoices yet
    signId,         \* each session's URL: the value of its sign parameter, if any
    awaiting,       \* each session's handlers suspended at an await
    localInvoice,   \* invoice sheet state: the invoice being edited
    formTiers,      \* settings state: the tiers of the rule in the pricing form
    editCount,      \* the number of edits made in the sheet
    products,       \* App state: the local product list
    productDocs,    \* db.ts: the documents of the products collection
    pendingSaves,   \* the batchSaveProducts calls in flight, oldest first
    lastSnapshot,   \* history: the latest snapshot the subscription delivered
    lastSaved       \* history: the list of the last successful save

resolverVars == <<pricingRules, priceCall, tierList, tierCall>>
serialVars == <<priorInvoices, serialCall>>
sessionVars == <<user, isLoading, signId, awaiting>>
storeVars == <<invoiceDocs, invoices, currentInvoice, view, savedSerials, sessionVars>>
sheetVars == <<localInvoice, editCount>>
listVars == <<products, productDocs, pendingSaves, lastSnapshot, lastSaved>>
uiVars == <<sheetVars, formTiers, listVars>>
vars == <<pricingRules, priceCall, tierList, tierCall, serialVars, storeVars, uiVars>>

\* The parts of the state a specification does not exercise stay as constructed.
Sessions == {"s1", "s2"}
ResolverIdle ==
    /\ pricingRules = <<>>
    /\ priceCall = NoCall
    /\ tierList = None
    /\ tierCall = NoCall
SerialIdle ==
    /\ priorInvoices = <<>>
    /\ serialCall = NoCall
StoreIdle ==
    /\ invoiceDocs = {}
    /\ invoices = [s \in Sessions |-> <<>>]
    /\ currentInvoice = [s \in Sessions |-> None]
    /\ view = [s \in Sessions |-> "login"]
    /\ savedSerials = {}
    /\ user = [s \in Sessions |-> None]
    /\ isLoading = [s \in Sessions |-> TRUE]
    /\ signId = [s \in Sessions |-> None]
    /\ awaiting = [s \in Sessions |-> {}]
ListIdle ==
    /\ products = {}
    /\ productDocs = {}
    /\ pendingSaves = <<>>
    /\ lastSnapshot = {}
    /\ lastSaved = None
UiIdle ==
    /\ localInvoice = None
    /\ formTiers = None
    /\ editCount = 0
    /\ ListIdle

(***************************************************************************)
(* findPriceInTiers (helpers.ts 144-179)                                   *)
(***************************************************************************)
\* [...tiers].sort((a, b) => a.minQuantity - b.minQuantity): Array.prototype.sort
\* is stable, so tiers of equal minQuantity keep their stored order.
RECURSIVE InsertTier(_, _)
InsertTier(sorted, t) ==
    IF sorted = <<>> THEN <<t>>
    ELSE IF Head(sorted).minQuantity <= t.minQuantity
         THEN <<Head(sorted)>> \o InsertTier(Tail(sorted), t)
         ELSE <<t>> \o sorted

\* Faulty variant: the tiers are scanned in stored order, without the sort.
SortTiersOmitted(ts) == ts

RECURSIVE SortTiers(_)
SortTiers(ts) ==
    IF ts = <<>> THEN <<>>
    ELSE InsertTier(SortTiers(SubSeq(ts, 1, Len(ts) - 1)), ts[Len(ts)])

\* Faulty variant: the lower bound of the tier is not tested.
TierMatchesNoLowerBound(tier, quantity) ==
    tier.maxQuantity = None \/ quantity <= tier.maxQuantity[1]

\* The test of the loop body, lines 157-159.
TierMatches(tier, quantity) ==
    /\ quantity >= tier.minQuantity
    /\ (tier.maxQuantity = None \/ quantity <= tier.maxQuantity[1])

\* for (let i = sortedTiers.length - 1; i >= 0; i--): the (1-based) index of the
\* first matching tier from i downward, 0 when the loop ends without a return.
RECURSIVE ScanTiers(_, _, _)
ScanTiers(sortedTiers, i, quantity) ==
    IF i = 0 THEN 0
    ELSE IF TierMatches(sortedTiers[i], quantity) THEN i
         ELSE ScanTiers(sortedTiers, i - 1, quantity)

\* Faulty variant: no tier matching gives the base price, without lines 170-176.
PriceInTiersNoExtrapolation(tiers, quantity, basePrice) ==
    LET sortedTiers == SortTiers(tiers)
        i == ScanTiers(sortedTiers, Len(sortedTiers), quantity)
    IN  IF i > 0 THEN sortedTiers[i].price ELSE basePrice

\* Lines 151-178: the price for a non-empty tier list.
PriceInTiers(tiers, quantity, basePrice) ==
    LET sortedTiers == SortTiers(tiers)
        i == ScanTiers(sortedTiers, Len(sortedTiers), quantity)
        lastTier == sortedTiers[Len(sortedTiers)]
    IN  IF i > 0 THEN sortedTiers[i].price
        ELSE IF quantity < sortedTiers[1].minQuantity THEN basePrice
        ELSE IF lastTier.maxQuantity # None /\ quantity > lastTier.maxQuantity[1]
             THEN lastTier.price
             ELSE basePrice

findPriceInTiers(tiers, quantity, basePrice) ==
    IF tiers = None \/ tiers[1] = <<>> THEN basePrice
    ELSE PriceInTiers(tiers[1], quantity, basePrice)

(***************************************************************************)
(* findPriceForProduct (helpers.ts 43-141)                                 *)
(***************************************************************************)
\* Array.prototype.find(test) on s: the first element of the elements of s that
\* satisfy the test, or undefined.
Find(matches) == IF matches = <<>> THEN None ELSE Some(matches[1])

\* Faulty variants: quantity and basePrice passed in each other's place; the line
\* amount returned instead of the unit price.
TierPriceArgumentsSwapped(rule, quantity) ==
    findPriceInTiers(rule.tiers, rule.basePrice, quantity)

TierPriceTimesQuantity(rule, quantity) ==
    findPriceInTiers(rule.tiers, quantity, rule.basePrice) * quantity

TierPrice(rule, quantity) == findPriceInTiers(rule.tiers, quantity, rule.basePrice)

\* Faulty variants: the filter without the productId test, and without the
\* isActive test.
IsProductRuleAnyProduct(rule, productId) == rule.isActive

IsProductRuleIgnoringActive(rule, productId) == rule.productId = productId

\* Lines 54-56: the filter for the active rules of the product.
IsProductRule(rule, productId) == rule.productId = productId /\ rule.isActive

\* The tests of the six find() calls, lines 70-72, 80-82, 90-94, 102-106,
\* 114-118 and 125-129.
IsCustomerSpecRule(rule, customerId, specification) ==
    rule.customerId = customerId /\ rule.specification = specification

\* Faulty variants: the specification test dropped, and negated.
IsCustomerRuleAnySpecification(rule, customerId) == rule.customerId = customerId

IsCustomerRuleWithSpecification(rule, customerId) ==
    rule.customerId = customerId /\ Truthy(rule.specification)

IsCustomerRule(rule, customerId) ==
    rule.customerId = customerId /\ ~Truthy(rule.specification)

IsCategorySpecRule(rule, customerPriceCategory, specification) ==
    /\ rule.priceCategory = customerPriceCategory
    /\ ~Truthy(rule.customerId)
    /\ rule.specification = specification

\* Faulty variant: the priceCategory test dropped.
IsCategoryRuleAnyCategory(rule, customerPriceCategory) ==
    ~Truthy(rule.customerId) /\ ~Truthy(rule.specification)

IsCategoryRule(rule, customerPriceCategory) ==
    /\ rule.priceCategory = customerPriceCategory
    /\ ~Truthy(rule.customerId)
    /\ ~Truthy(rule.specification)

IsGeneralSpecRule(rule, specification) ==
    /\ ~Truthy(rule.priceCategory)
    /\ ~Truthy(rule.customerId)
    /\ rule.specification = specification

IsGeneralRule(rule) ==
    /\ ~Truthy(rule.priceCategory)
    /\ ~Truthy(rule.customerId)
    /\ ~Truthy(rule.specification)

findPriceForProduct(productId, quantity, specification, customerId, customerPriceCategory, rules) ==
    LET productRules == SelectSeq(rules, LAMBDA rule : IsProductRule(rule, productId))
        customerSpecRule ==
            Find(SelectSeq(productRules,
                 LAMBDA rule : IsCustomerSpecRule(rule, customerId, specification)))
        customerRule ==
            Find(SelectSeq(productRules, LAMBDA rule : IsCustomerRule(rule, customerId)))
        categorySpecRule ==
            Find(SelectSeq(productRules,
                 LAMBDA rule : IsCategorySpecRule(rule, customerPriceCategory,
                                                  specification)))
        categoryRule ==
            Find(SelectSeq(productRules,
                 LAMBDA rule : IsCategoryRule(rule, customerPriceCategory)))
        generalSpecRule ==
            Find(SelectSeq(productRules,
                 LAMBDA rule : IsGeneralSpecRule(rule, specification)))
        generalRule == Find(SelectSeq(productRules, IsGeneralRule))
    IN  IF rules = <<>> THEN None
        ELSE IF productRules = <<>> THEN None
        ELSE IF Truthy(customerId) /\ Truthy(specification) /\ customerSpecRule # None
             THEN Some(TierPrice(customerSpecRule[1], quantity))
        ELSE IF Truthy(customerId) /\ customerRule # None
             THEN Some(TierPrice(customerRule[1], quantity))
        ELSE IF Truthy(customerPriceCategory) /\ Truthy(specification)
                /\ categorySpecRule # None
             THEN Some(TierPrice(categorySpecRule[1], quantity))
        ELSE IF Truthy(customerPriceCategory) /\ categoryRule # None
             THEN Some(TierPrice(categoryRule[1], quantity))
        ELSE IF Truthy(specification) /\ generalSpecRule # None
             THEN Some(TierPrice(generalSpecRule[1], quantity))
        ELSE IF generalRule # None
             THEN Some(TierPrice(generalRule[1], quantity))
        ELSE Some(TierPrice(productRules[1], quantity))

(***************************************************************************)
(* Specification of the price resolver: the rule list is any list the      *)
(* store can deliver; the editor calls the resolver with any request.      *)
(***************************************************************************)
Init ==
    /\ pricingRules \in SeqsUpTo(RuleInputs, MaxRules)
    /\ priceCall = NoCall
    /\ tierList = None
    /\ tierCall = NoCall
    /\ SerialIdle
    /\ StoreIdle
    /\ UiIdle

\* A call of findPriceForProduct by the line-item editor, up to its return value.
ResolvePrice ==
    /\ priceCall = NoCall
    /\ \E req \in Requests :
         priceCall' = [called |-> TRUE, request |-> req,
                       result |-> findPriceForProduct(req.productId, req.quantity,
                                      req.specification, req.customerId,
                                      req.customerPriceCategory, pricingRules)]
    /\ UNCHANGED <<pricingRules, tierList, tierCall, serialVars, storeVars, uiVars>>

\* The caller has consumed the result.
ReturnPrice ==
    /\ priceCall # NoCall
    /\ priceCall' = NoCall
    /\ UNCHANGED <<pricingRules, tierList, tierCall, serialVars, storeVars, uiVars>>

Next == ResolvePrice \/ ReturnPrice

Spec == Init /\ [][Next]_vars

(***************************************************************************)
(* Specification of tier resolution alone, over every tier list.           *)
(***************************************************************************)
TierInit ==
    /\ tierList \in {None} \cup {Some(ts) : ts \in SeqsUpTo(PricingTier, MaxTiers)}
    /\ tierCall = NoCall
    /\ pricingRules = <<>>
    /\ priceCall = NoCall
    /\ SerialIdle
    /\ StoreIdle
    /\ UiIdle

ResolveTier ==
    /\ tierCall = NoCall
    /\ \E quantity \in 0..(MaxQuantity + 1), basePrice \in BasePrices :
         tierCall' = [called |-> TRUE, quantity |-> quantity, basePrice |-> basePrice,
                      result |-> findPriceInTiers(tierList, quantity, basePrice)]
    /\ UNCHANGED <<pricingRules, priceCall, tierList, serialVars, storeVars, uiVars>>

ReturnTier ==
    /\ tierCall # NoCall
    /\ tierCall' = NoCall
    /\ UNCHANGED <<pricingRules, priceCall, tierList, serialVars, storeVars, uiVars>>

TierNext == ResolveTier \/ ReturnTier

TierSpec == TierInit /\ [][TierNext]_vars

(***************************************************************************)
(* Vocabulary of the claims about the resolver.  A field or argument "has  *)
(* a value" when it is neither undefined nor the empty string.             *)
(***************************************************************************)
Present(x) == x # Undef /\ x # ""
Absent(x) == ~Present(x)
Least(S) == CHOOSE x \in S : \A y \in S : x <= y

\* The positions of the active rules of the requested product.
ActiveOf(req) ==
    {i \in DOMAIN pricingRules :
        pricingRules[i].productId = req.productId /\ pricingRules[i].isActive}

\* The request carries the context priority level n needs.
LevelTried(n, req) ==
    /\ (n \in {1, 2} => Present(req.customerId))
    /\ (n \in {3, 4} => Present(req.customerPriceCategory))
    /\ (n \in {1, 3, 5} => Present(req.specification))

\* Rule r is in the scope priority level n describes.
InLevel(n, r, req) ==
    CASE n = 1 -> r.customerId = req.customerId /\ r.specification = req.specification
      [] n = 2 -> r.customerId = req.customerId /\ Absent(r.specification)
      [] n = 3 -> /\ r.priceCategory = req.customerPriceCategory
                  /\ Absent(r.customerId)
                  /\ r.specification = req.specification
      [] n = 4 -> /\ r.priceCategory = req.customerPriceCategory
                  /\ Absent(r.customerId)
                  /\ Absent(r.specification)
      [] n = 5 -> /\ Absent(r.priceCategory)
                  /\ Absent(r.customerId)
                  /\ r.specification = req.specification
      [] n = 6 -> /\ Absent(r.priceCategory)
                  /\ Absent(r.customerId)
                  /\ Absent(r.specification)

LevelMatches(n, req) ==
    IF LevelTried(n, req)
    THEN {i \in ActiveOf(req) : InLevel(n, pricingRules[i], req)}
    ELSE {}

\* The highest-priority level from n on that has a match, 0 when none has.
RECURSIVE FirstLevelFrom(_, _)
FirstLevelFrom(n, req) ==
    IF n > 6 THEN 0
    ELSE IF LevelMatches(n, req) # {} THEN n
    ELSE FirstLevelFrom(n + 1, req)

BestLevelOf(req) == FirstLevelFrom(1, req)

NoLevelMatches(req) == BestLevelOf(req) = 0

\* The position of the rule the cascade uses: the first rule of the best level,
\* or the first active rule of the product when no level matches.
FirstOfLevel(n, req) ==
    IF n = 0 THEN Least(ActiveOf(req)) ELSE Least(LevelMatches(n, req))

SelectedIndex(req) == FirstOfLevel(BestLevelOf(req), req)

\* The prices a rule holds: its base price and the prices of its tiers.
PricesOf(r) ==
    {r.basePrice} \cup (IF r.tiers = None THEN {}
                        ELSE {r.tiers[1][j].price : j \in DOMAIN r.tiers[1]})

\* C1: the result is the tier-resolved price of the first rule, in list order,
\* of the highest-priority level that has a match among the active rules of the
\* product; a level whose context the request lacks is skipped.
C1_PriorityCascade ==
    priceCall.called =>
        \A n \in {BestLevelOf(priceCall.request)} :
            n # 0 =>
                priceCall.result =
                    Some(TierPrice(pricingRules[FirstOfLevel(n, priceCall.request)],
                                   priceCall.request.quantity))

\* C1 witness: a category rule with the specification (level 3) is used although a
\* general rule stands before it in the list.
C1_Witness ==
    /\ priceCall.called
    /\ Len(pricingRules) = 2
    /\ BestLevelOf(priceCall.request) = 3
    /\ LevelMatches(3, priceCall.request) = {2}
    /\ LevelMatches(6, priceCall.request) = {1}
    /\ priceCall.result = Some(80)
    /\ TierPrice(pricingRules[1], priceCall.request.quantity) = 300

\* The active rules of the product scoped to the request's customer, to the
\* request's price category (and to no customer), and to neither.
CustomerRules(req) ==
    {i \in ActiveOf(req) :
        Present(req.customerId) /\ pricingRules[i].customerId = req.customerId}

CategoryRules(req) ==
    {i \in ActiveOf(req) :
        /\ Present(req.customerPriceCategory)
        /\ pricingRules[i].priceCategory = req.customerPriceCategory
        /\ Absent(pricingRules[i].customerId)}

GeneralRules(req) ==
    {i \in ActiveOf(req) :
        Absent(pricingRules[i].customerId) /\ Absent(pricingRules[i].priceCategory)}

\* The rule's specification does not exclude the request: it is absent, or it is
\* the request's specification.
SpecificationApplies(r, req) ==
    Absent(r.specification) \/ r.specification = req.specification

ResolvedPrices(S, req) ==
    {Some(TierPrice(pricingRules[i], req.quantity)) : i \in S}

\* C2 as stated: with a rule of the request's customer and a general rule among
\* the active rules, the result is the customer rule's price, whatever the
\* specification of the request.
C2_CustomerBeatsGeneral_AsStated ==
    priceCall.called =>
        LET req == priceCall.request
        IN  (CustomerRules(req) # {} /\ GeneralRules(req) # {})
                => priceCall.result \in ResolvedPrices(CustomerRules(req), req)

\* C2 as amended: with a rule of the request's customer whose specification is
\* absent or is the request's, and a general rule, the result is the price of
\* such a customer rule.
C2_CustomerBeatsGeneral ==
    priceCall.called =>
        LET req == priceCall.request
            applicable == {i \in CustomerRules(req) :
                              SpecificationApplies(pricingRules[i], req)}
        IN  (applicable # {} /\ GeneralRules(req) # {})
                => priceCall.result \in ResolvedPrices(applicable, req)

\* C2 witness: a general rule stands first, the customer's rule second, and the
\* result is the customer rule's price, which differs from the general rule's.
C2_Witness ==
    /\ priceCall.called
    /\ Len(pricingRules) = 2
    /\ GeneralRules(priceCall.request) = {1}
    /\ CustomerRules(priceCall.request) = {2}
    /\ SpecificationApplies(pricingRules[2], priceCall.request)
    /\ priceCall.result = Some(TierPrice(pricingRules[2], priceCall.request.quantity))
    /\ priceCall.result # Some(TierPrice(pricingRules[1], priceCall.request.quantity))

\* C3 as stated: with no rule of the request's customer, a rule of the request's
\* category and a general rule, the result is the category rule's price, whatever
\* the specification of the request.
C3_CategoryBeatsGeneral_AsStated ==
    priceCall.called =>
        LET req == priceCall.request
        IN  (CustomerRules(req) = {} /\ CategoryRules(req) # {} /\ GeneralRules(req) # {})
                => priceCall.result \in ResolvedPrices(CategoryRules(req), req)

\* C3 as amended: with no rule of the request's customer, a rule of the request's
\* category whose specification is absent or is the request's, and a general
\* rule, the result is the price of such a category rule.
C3_CategoryBeatsGeneral ==
    priceCall.called =>
        LET req == priceCall.request
            applicable == {i \in CategoryRules(req) :
                              SpecificationApplies(pricingRules[i], req)}
        IN  (CustomerRules(req) = {} /\ applicable # {} /\ GeneralRules(req) # {})
                => priceCall.result \in ResolvedPrices(applicable, req)

\* C3 witness: a general rule stands first, the category's rule second, no rule
\* is the customer's, and the result is the category rule's price.
C3_Witness ==
    /\ priceCall.called
    /\ Len(pricingRules) = 2
    /\ Present(priceCall.request.customerId)
    /\ CustomerRules(priceCall.request) = {}
    /\ GeneralRules(priceCall.request) = {1}
    /\ CategoryRules(priceCall.request) = {2}
    /\ SpecificationApplies(pricingRules[2], priceCall.request)
    /\ priceCall.result = Some(TierPrice(pricingRules[2], priceCall.request.quantity))
    /\ priceCall.result # Some(TierPrice(pricingRules[1], priceCall.request.quantity))

\* C4: the result is null exactly when the list holds no active rule of the
\* product; when it holds some and no level matches, the result is the price of
\* the first active rule of the product.
C4_NullIffNoActiveRule ==
    priceCall.called =>
        LET req == priceCall.request
        IN  /\ (priceCall.result = None) <=> (ActiveOf(req) = {})
            /\ (ActiveOf(req) # {} /\ NoLevelMatches(req))
                   => priceCall.result =
                          Some(TierPrice(pricingRules[Least(ActiveOf(req))], req.quantity))

\* C4 witness: two active rules of the product, neither in any level's scope; the
\* result is the first one's price and not the second one's.
C4_Witness ==
    /\ priceCall.called
    /\ ActiveOf(priceCall.request) = {1, 2}
    /\ NoLevelMatches(priceCall.request)
    /\ priceCall.result = Some(TierPrice(pricingRules[1], priceCall.request.quantity))
    /\ priceCall.result # Some(TierPrice(pricingRules[2], priceCall.request.quantity))

RemoveAt(s, i) == SubSeq(s, 1, i - 1) \o SubSeq(s, i + 1, Len(s))

Excluded(r, req) == ~r.isActive \/ r.productId # req.productId

\* C5: the result of a call equals the result for the list without any one of its
\* inactive or other-product rules (removing such a rule from a list, or adding
\* it to the shorter list, changes nothing).
C5_ExcludedRulesIgnored ==
    priceCall.called =>
        LET req == priceCall.request
        IN  \A i \in DOMAIN pricingRules :
                Excluded(pricingRules[i], req) =>
                    findPriceForProduct(req.productId, req.quantity, req.specification,
                                        req.customerId, req.customerPriceCategory,
                                        RemoveAt(pricingRules, i)) = priceCall.result

\* C5 witness: an inactive general rule of the product stands first, an active
\* rule second; the result is the active rule's price, not the inactive one's.
C5_Witness ==
    /\ priceCall.called
    /\ Len(pricingRules) = 2
    /\ ~pricingRules[1].isActive
    /\ pricingRules[1].productId = priceCall.request.productId
    /\ InLevel(6, pricingRules[1], priceCall.request)
    /\ ActiveOf(priceCall.request) = {2}
    /\ priceCall.result = Some(TierPrice(pricingRules[2], priceCall.request.quantity))
    /\ priceCall.result # Some(TierPrice(pricingRules[1], priceCall.request.quantity))

HasNoTiers(r) == r.tiers = None \/ r.tiers[1] = <<>>

\* C9: when the rule the cascade selects has an empty or missing tier list, the
\* result is that rule's base price, for every quantity.
C9_NoTiersGiveBasePrice ==
    (priceCall.called /\ ActiveOf(priceCall.request) # {}) =>
        \A i \in {SelectedIndex(priceCall.request)} :
            HasNoTiers(pricingRules[i])
                => priceCall.result = Some(pricingRules[i].basePrice)

\* C9 witness: the selected rule has no tiers field, the other rule of the list
\* has tiers, the quantity is the largest one, and the result is the base price.
C9_Witness ==
    /\ priceCall.called
    /\ ActiveOf(priceCall.request) = {1, 2}
    /\ SelectedIndex(priceCall.request) = 2
    /\ pricingRules[2].tiers = None
    /\ ~HasNoTiers(pricingRules[1])
    /\ priceCall.request.quantity = MaxRequestQuantity
    /\ priceCall.result = Some(pricingRules[2].basePrice)

\* C10: a result is null, or the base price or a tier price of one active rule
\* of the requested product in the list.
C10_ResultIsAStoredPrice ==
    priceCall.called =>
        \/ priceCall.result = None
        \/ \E i \in ActiveOf(priceCall.request) :
               priceCall.result[1] \in PricesOf(pricingRules[i])

\* C10 witness: the result is a tier price of the active rule, with an inactive
\* rule of the same product holding other prices in the list.
C10_Witness ==
    /\ priceCall.called
    /\ Len(pricingRules) = 2
    /\ ActiveOf(priceCall.request) = {2}
    /\ pricingRules[1].productId = priceCall.request.productId
    /\ priceCall.result # None
    /\ priceCall.result[1] # pricingRules[2].basePrice
    /\ priceCall.result[1] \in PricesOf(pricingRules[2])
    /\ priceCall.result[1] \notin PricesOf(pricingRules[1])

(***************************************************************************)
(* Vocabulary of the claims about tier resolution.                         *)
(***************************************************************************)
Greatest(S) == CHOOSE x \in S : \A y \in S : y <= x

\* The tier list of the call, when the call has a non-empty one.
HasTiers == tierList # None /\ tierList[1] # <<>>
Tiers == tierList[1]

\* quantity lies in the range of tier t, both bounds included.
InRange(t, quantity) ==
    /\ t.minQuantity <= quantity
    /\ (t.maxQuantity = None \/ quantity <= t.maxQuantity[1])

Matching(quantity) == {j \in DOMAIN Tiers : InRange(Tiers[j], quantity)}

\* The matching tiers of the largest minQuantity, and the tiers of the largest
\* minQuantity of the whole list.
BestMatching(quantity) ==
    {j \in Matching(quantity) :
        \A k \in Matching(quantity) : Tiers[k].minQuantity <= Tiers[j].minQuantity}

TopTiers ==
    {j \in DOMAIN Tiers : \A k \in DOMAIN Tiers : Tiers[k].minQuantity <= Tiers[j].minQuantity}

DistinctMinQuantities ==
    \A j, k \in DOMAIN Tiers : j # k => Tiers[j].minQuantity # Tiers[k].minQuantity

\* The same tiers in every storage order.
Reorderings ==
    {[j \in DOMAIN Tiers |-> Tiers[p[j]]] :
        p \in {f \in [DOMAIN Tiers -> DOMAIN Tiers] :
                  \A j, k \in DOMAIN Tiers : j # k => f[j] # f[k]}}

SameInEveryOrder ==
    \A ts \in Reorderings :
        findPriceInTiers(Some(ts), tierCall.quantity, tierCall.basePrice) = tierCall.result

\* C6 as stated: when some tier's range holds the quantity, the result is the
\* price of the matching tier of the largest minQuantity, and the storage order
\* of the tiers does not change it.
C6_BestMatchingTier_AsStated ==
    (tierCall.called /\ HasTiers /\ Matching(tierCall.quantity) # {}) =>
        /\ \A j \in BestMatching(tierCall.quantity) : tierCall.result = Tiers[j].price
        /\ SameInEveryOrder

\* C6 as amended: the result is the price of the matching tier of the largest
\* minQuantity, the last stored one when several matching tiers share it; the
\* storage order does not change the result when no two tiers share a minQuantity.
C6_BestMatchingTier ==
    (tierCall.called /\ HasTiers /\ Matching(tierCall.quantity) # {}) =>
        /\ tierCall.result = Tiers[Greatest(BestMatching(tierCall.quantity))].price
        /\ DistinctMinQuantities => SameInEveryOrder

\* C6 witness: two tiers stored in descending order of minQuantity both hold the
\* quantity, the first one's upper bound being the quantity itself; the result is
\* the first one's price.
C6_Witness ==
    /\ tierCall.called
    /\ HasTiers
    /\ Len(Tiers) = 2
    /\ Tiers[1].minQuantity > Tiers[2].minQuantity
    /\ Tiers[1].maxQuantity = Some(tierCall.quantity)
    /\ Matching(tierCall.quantity) = {1, 2}
    /\ Tiers[1].price # Tiers[2].price
    /\ tierCall.result = Tiers[1].price

WellFormed(t) == t.maxQuantity = None \/ t.maxQuantity[1] >= t.minQuantity

\* C7 as stated, read in the way most favourable to it (every tier's maxQuantity
\* is at least its minQuantity, and no two tiers share a minQuantity, so that the
\* tier of the largest minQuantity is one tier):
\* when the tier of the largest minQuantity has a maxQuantity below the quantity,
\* the result is that tier's price.
C7_AboveTopTier_AsStated ==
    (/\ tierCall.called
     /\ HasTiers
     /\ DistinctMinQuantities
     /\ \A j \in DOMAIN Tiers : WellFormed(Tiers[j])) =>
        LET exceeded == {j \in TopTiers :
                            /\ Tiers[j].maxQuantity # None
                            /\ tierCall.quantity > Tiers[j].maxQuantity[1]}
        IN  exceeded # {} => \E j \in exceeded : tierCall.result = Tiers[j].price

\* C7 as amended: when the tier of the largest minQuantity (the last stored of
\* them) has a maxQuantity that is not below its minQuantity and is below the
\* quantity, and no tier's range holds the quantity, the result is that tier's
\* price.
C7_AboveTopTier ==
    (tierCall.called /\ HasTiers) =>
        LET top == Tiers[Greatest(TopTiers)]
        IN  (/\ top.maxQuantity # None
             /\ top.maxQuantity[1] >= top.minQuantity
             /\ tierCall.quantity > top.maxQuantity[1]
             /\ Matching(tierCall.quantity) = {})
                => tierCall.result = top.price

\* C7 witness: two bounded tiers, the top one stored first, neither holding the
\* quantity; the result is the top tier's price, not the other's or the base price.
C7_Witness ==
    /\ tierCall.called
    /\ HasTiers
    /\ Len(Tiers) = 2
    /\ Tiers[1].minQuantity > Tiers[2].minQuantity
    /\ Tiers[1].maxQuantity # None
    /\ Tiers[1].maxQuantity[1] >= Tiers[1].minQuantity
    /\ tierCall.quantity > Tiers[1].maxQuantity[1]
    /\ Matching(tierCall.quantity) = {}
    /\ Tiers[1].price # Tiers[2].price
    /\ tierCall.result = Tiers[1].price
    /\ tierCall.result # tierCall.basePrice

\* C8: a quantity below the smallest minQuantity of the tiers gives the base
\* price.
C8_BelowSmallestTier ==
    (tierCall.called /\ HasTiers) =>
        ((\A j \in DOMAIN Tiers : tierCall.quantity < Tiers[j].minQuantity)
            => tierCall.result = tierCall.basePrice)

\* C8 witness: a positive quantity below both tiers, the top one open-ended; the
\* result is the base price, which is neither tier's price.
C8_Witness ==
    /\ tierCall.called
    /\ HasTiers
    /\ Len(Tiers) = 2
    /\ tierCall.quantity > 0
    /\ \A j \in DOMAIN Tiers : tierCall.quantity < Tiers[j].minQuantity
    /\ \E j \in DOMAIN Tiers : Tiers[j].maxQuantity = None
    /\ tierCall.result = tierCall.basePrice
    /\ \A j \in DOMAIN Tiers : tierCall.result # Tiers[j].price

(***************************************************************************)
(* JavaScript strings, as the serial number generator uses them.  A string *)
(* is the sequence of its characters, so that startsWith, slice, parseInt, *)
(* padStart and padEnd do what the JavaScript methods do.                  *)
(***************************************************************************)
UpperCaseLetters ==
    <<"A", "B", "C", "D", "E", "F", "G", "H", "I", "J", "K", "L", "M",
      "N", "O", "P", "Q", "R", "S", "T", "U", "V", "W", "X", "Y", "Z">>
LowerCaseLetters ==
    <<"a", "b", "c", "d", "e", "f", "g", "h", "i", "j", "k", "l", "m",
      "n", "o", "p", "q", "r", "s", "t", "u", "v", "w", "x", "y", "z">>
DecimalDigits == <<"0", "1", "2", "3", "4", "5", "6", "7", "8", "9">>
WhiteSpace == {" "}
Range(s) == {s[i] : i \in DOMAIN s}

UpperCase == Range(UpperCaseLetters)
LowerCase == Range(LowerCaseLetters)
Digits == Range(DecimalDigits)

\* The characters the class [a-zA-Z0-9] accepts.
Alphanumerics == UpperCase \cup LowerCase \cup Digits
IsAlphanumeric(c) == c \in Alphanumerics

\* customerId.replace(/[^a-zA-Z0-9]/g, '')
RemoveNonAlphanumeric(s) == SelectSeq(s, IsAlphanumeric)

\* Faulty variant: the letters keep their case.
toUpperCaseOmitted(s) == s

\* String.prototype.toUpperCase
toUpperCase(s) ==
    [i \in DOMAIN s |->
        IF s[i] \in LowerCase
        THEN UpperCaseLetters[CHOOSE k \in DOMAIN LowerCaseLetters :
                                  LowerCaseLetters[k] = s[i]]
        ELSE s[i]]

\* String.prototype.substring(0, end)
substring(s, end) == SubSeq(s, 1, IF end < Len(s) THEN end ELSE Len(s))

\* String.prototype.padEnd(targetLength, padCharacter)
padEnd(s, targetLength, c) == s \o [i \in 1..(targetLength - Len(s)) |-> c]

\* String.prototype.padStart(targetLength, padCharacter): a string already
\* as long as targetLength is returned whole.
padStart(s, targetLength, c) == [i \in 1..(targetLength - Len(s)) |-> c] \o s

\* Faulty variant: every string starts with every prefix.
startsWithAnything(s, prefix) == TRUE

\* String.prototype.startsWith
startsWith(s, prefix) ==
    Len(s) >= Len(prefix) /\ SubSeq(s, 1, Len(prefix)) = prefix

\* String.prototype.slice(-n): the last n characters, the whole string when it
\* is shorter.
sliceLast(s, n) == SubSeq(s, IF Len(s) > n THEN Len(s) - n + 1 ELSE 1, Len(s))

\* String.prototype.endsWith
endsWith(s, suffix) ==
    Len(s) >= Len(suffix) /\ sliceLast(s, Len(suffix)) = suffix

\* A number parsed from a string is NaN or Some(n).
NaN == None

RECURSIVE TrimStart(_)
TrimStart(s) ==
    IF s # <<>> /\ s[1] \in WhiteSpace THEN TrimStart(Tail(s)) ELSE s

RECURSIVE LeadingDigits(_)
LeadingDigits(s) ==
    IF s # <<>> /\ s[1] \in Digits
    THEN <<s[1]>> \o LeadingDigits(Tail(s))
    ELSE <<>>

DigitValue(c) == (CHOOSE k \in DOMAIN DecimalDigits : DecimalDigits[k] = c) - 1

RECURSIVE DecimalValue(_)
DecimalValue(digits) ==
    IF digits = <<>> THEN 0
    ELSE 10 * DecimalValue(SubSeq(digits, 1, Len(digits) - 1))
             + DigitValue(digits[Len(digits)])

\* Faulty variant: the digits are looked for after any leading characters.
RECURSIVE parseIntSkippingJunk(_)
parseIntSkippingJunk(s) ==
    IF s = <<>> THEN NaN
    ELSE IF s[1] \in Digits
         THEN Some(DecimalValue(LeadingDigits(s)))
         ELSE parseIntSkippingJunk(Tail(s))

\* parseInt(s, 10): leading white space is skipped, one sign is accepted, and
\* the longest run of decimal digits that follows is the number; characters
\* after it are ignored, and NaN is returned when there is no digit there.
parseInt(s) ==
    LET trimmed == TrimStart(s)
        signed == trimmed # <<>> /\ trimmed[1] \in {"+", "-"}
        digits == LeadingDigits(IF signed THEN Tail(trimmed) ELSE trimmed)
    IN  IF digits = <<>> THEN NaN
        ELSE IF signed /\ trimmed[1] = "-"
             THEN Some(0 - DecimalValue(digits))
             ELSE Some(DecimalValue(digits))

\* x || 0 on a number: NaN and 0 are falsy.
OrZero(x) == IF x = NaN \/ x = Some(0) THEN 0 ELSE x[1]

RECURSIVE DigitsOf(_)
DigitsOf(n) ==
    IF n < 10 THEN <<DecimalDigits[n + 1]>>
    ELSE DigitsOf(n \div 10) \o <<DecimalDigits[(n % 10) + 1]>>

\* String(n) of an integer.
String(n) == IF n < 0 THEN <<"-">> \o DigitsOf(0 - n) ELSE DigitsOf(n)

(***************************************************************************)
(* generateCustomerSerialNumber (helpers.ts 181-231)                       *)
(***************************************************************************)
CodeLength == 4
SequenceLength == 5

getCustomerCode(customerId) ==
    LET cleaned == toUpperCase(RemoveNonAlphanumeric(customerId))
    IN  padEnd(substring(cleaned, CodeLength), CodeLength, "0")

\* Faulty variant: the industry prefix is given to every tier that is set.
tierPrefixOfAnyTier(customerTier) ==
    IF Truthy(customerTier) THEN <<"T", "C">> ELSE <<"C", "P">>

\* customerTier === 'industry' ? 'TC' : 'CP'
tierPrefix(customerTier) ==
    IF customerTier = "industry" THEN <<"T", "C">> ELSE <<"C", "P">>

\* parseInt(inv.serialNumber.slice(-5), 10) || 0
SequenceOf(inv) == OrZero(parseInt(sliceLast(inv.serialNumber, SequenceLength)))

\* [...matchingInvoices].sort((a, b) => seqB - seqA): descending by sequence;
\* Array.prototype.sort is stable.
\* Faulty variant: the comparator is reversed, the smallest sequence comes first.
RECURSIVE InsertInvoiceAscending(_, _)
InsertInvoiceAscending(sorted, inv) ==
    IF sorted = <<>> THEN <<inv>>
    ELSE IF SequenceOf(Head(sorted)) <= SequenceOf(inv)
         THEN <<Head(sorted)>> \o InsertInvoiceAscending(Tail(sorted), inv)
         ELSE <<inv>> \o sorted

RECURSIVE InsertInvoice(_, _)
InsertInvoice(sorted, inv) ==
    IF sorted = <<>> THEN <<inv>>
    ELSE IF SequenceOf(Head(sorted)) >= SequenceOf(inv)
         THEN <<Head(sorted)>> \o InsertInvoice(Tail(sorted), inv)
         ELSE <<inv>> \o sorted

\* Faulty variant: the matching invoices are left in the order given.
SortInvoicesOmitted(invs) == invs

RECURSIVE SortInvoices(_)
SortInvoices(invs) ==
    IF invs = <<>> THEN <<>>
    ELSE InsertInvoice(SortInvoices(SubSeq(invs, 1, Len(invs) - 1)), invs[Len(invs)])

MatchingInvoices(customerInvoices, basePrefix) ==
    SelectSeq(customerInvoices, LAMBDA inv : startsWith(inv.serialNumber, basePrefix))

generateCustomerSerialNumber(customerName, customerId, customerInvoices, customerStartSerial, customerTier) ==
    LET customerCode == getCustomerCode(customerId)
        basePrefix == tierPrefix(customerTier) \o customerCode
        matchingInvoices == MatchingInvoices(customerInvoices, basePrefix)
        sortedInvoices == SortInvoices(matchingInvoices)
        lastInvoice == sortedInvoices[1]
        lastSequence == SequenceOf(lastInvoice)
    IN  IF Len(customerInvoices) > 0 /\ Len(matchingInvoices) > 0
        THEN basePrefix \o padStart(String(lastSequence + 1), SequenceLength, "0")
        ELSE basePrefix \o <<"0", "0", "0", "0", "1">>

(***************************************************************************)
(* Specification of the serial number generator: it is called with any     *)
(* customer and any list of prior invoices.  The prior serials cover the   *)
(* well-formed ones up to the largest sequence, the serial the generator   *)
(* gives after 99999, the temporary serial of a new invoice, malformed     *)
(* tails, and the same customer code under the other tier prefix.  The     *)
(* customer ids need a character removed, upper-casing, cutting to four    *)
(* characters and padding.                                                 *)
(***************************************************************************)
MaxInvoices == 2

SerialCustomerIds ==
    { <<"A", "b", "-", "c", "D", "e">>,
      <<"x", "_", "7">>,
      <<>> }
CustomerTiers == {Undef, "general", "industry", "kangshiting"}
CustomerNames == {"Acme", "Bolt"}
StartSerials == {None, Some(500)}

CPABCD == <<"C", "P", "A", "B", "C", "D">>
TCABCD == <<"T", "C", "A", "B", "C", "D">>
tempSerial == <<"C", "P", "0", "0", "0", "0", "0", "0", "0", "0", "0", "0">>

PriorSerials ==
    { CPABCD \o <<"0", "0", "0", "0", "1">>,
      CPABCD \o <<"0", "0", "0", "0", "7">>,
      CPABCD \o <<"9", "9", "9", "9", "9">>,
      CPABCD \o <<"1", "0", "0", "0", "0", "0">>,
      CPABCD \o <<"0", "0", "1", "2", "X">>,
      CPABCD \o <<"X", "0", "0", "1", "2">>,
      CPABCD \o <<"-", "0", "0", "1", "2">>,
      CPABCD \o <<"7">>,
      TCABCD \o <<"0", "0", "0", "0", "3">>,
      tempSerial }

SerialInvoice == [serialNumber : PriorSerials]

SerialRequests == [customerName : CustomerNames,
                   customerId : SerialCustomerIds,
                   customerStartSerial : StartSerials,
                   customerTier : CustomerTiers]

SerialInit ==
    /\ priorInvoices \in SeqsUpTo(SerialInvoice, MaxInvoices)
    /\ serialCall = NoCall
    /\ ResolverIdle
    /\ StoreIdle
    /\ UiIdle

\* A call of generateCustomerSerialNumber, up to its return value.
GenerateSerial ==
    /\ serialCall = NoCall
    /\ \E req \in SerialRequests :
         serialCall' = [called |-> TRUE, request |-> req,
                        result |-> generateCustomerSerialNumber(req.customerName,
                                       req.customerId, priorInvoices,
                                       req.customerStartSerial, req.customerTier)]
    /\ UNCHANGED <<pricingRules, priceCall, tierList, tierCall, priorInvoices, storeVars, uiVars>>

\* The caller has put the serial on the invoice being edited.
ReturnSerial ==
    /\ serialCall # NoCall
    /\ serialCall' = NoCall
    /\ UNCHANGED <<pricingRules, priceCall, tierList, tierCall, priorInvoices, storeVars, uiVars>>

SerialNext == GenerateSerial \/ ReturnSerial

SerialSpec == SerialInit /\ [][SerialNext]_vars

(***************************************************************************)
(* Vocabulary of the claims about the serial number generator.             *)
(***************************************************************************)
SerialRequest == serialCall.request
SerialResult == serialCall.result

\* TierPrefix + CustomerCode of the call.
BasePrefix ==
    tierPrefix(SerialRequest.customerTier) \o getCustomerCode(SerialRequest.customerId)

\* The prior invoices whose serial starts with the base prefix, by position.
Prior(i) == priorInvoices[i].serialNumber
MatchingPrior == {i \in DOMAIN priorInvoices : startsWith(Prior(i), BasePrefix)}

\* The integer read from the last five characters of a serial; a tail with no
\* number to read counts as 0.
TailNumber(serial) == OrZero(parseInt(sliceLast(serial, SequenceLength)))
MaxSequence == Greatest({TailNumber(Prior(i)) : i \in MatchingPrior})

FirstSerial == BasePrefix \o <<"0", "0", "0", "0", "1">>

\* C11: the serial is the base prefix followed by max + 1 zero-padded to five
\* digits, max being the largest number read from the last five characters of
\* the prior serials that start with the base prefix; with no such prior serial
\* it is the base prefix followed by 00001.
C11_NextAfterMaximum ==
    serialCall.called =>
        SerialResult =
            IF MatchingPrior = {} THEN FirstSerial
            ELSE BasePrefix \o padStart(String(MaxSequence + 1), SequenceLength, "0")

\* C11 witness: two prior serials of the customer, the larger sequence second
\* in the list, and the serial after the larger one returned.
C11_Witness ==
    /\ serialCall.called
    /\ MatchingPrior = {1, 2}
    /\ TailNumber(Prior(1)) = 1
    /\ TailNumber(Prior(2)) = 7
    /\ SerialResult = BasePrefix \o <<"0", "0", "0", "0", "8">>

\* C12: the serial returned differs from the serial of every prior invoice
\* handed to the generator.
C12_SerialIsFresh ==
    serialCall.called =>
        \A i \in DOMAIN priorInvoices : Prior(i) # SerialResult

AllDigits(s) == \A i \in DOMAIN s : s[i] \in Digits
TierPrefixes == {<<"T", "C">>, <<"C", "P">>}

\* A serial in the documented format: tier prefix, customer code, five digits.
WellFormedSerial(serial) ==
    /\ Len(serial) = 2 + CodeLength + SequenceLength
    /\ SubSeq(serial, 1, 2) \in TierPrefixes
    /\ \A i \in 3..(2 + CodeLength) : IsAlphanumeric(serial[i])
    /\ AllDigits(sliceLast(serial, SequenceLength))

\* C15: the serial is the two-letter tier prefix, the four-character customer
\* code and exactly five decimal digits, eleven characters in all, whatever the
\* highest prior sequence from 0 to 99999.  It is stated here for the calls
\* whose matching prior serials are themselves in that format.
C15_ElevenCharacters ==
    (serialCall.called /\ \A i \in MatchingPrior : WellFormedSerial(Prior(i)))
        => /\ WellFormedSerial(SerialResult)
           /\ startsWith(SerialResult, BasePrefix)

\* C16: the serial starts with TC exactly when customerTier is 'industry', and
\* with CP for every other customerTier, absent, 'general' and 'kangshiting'
\* included.
C16_TierPrefix ==
    serialCall.called =>
        /\ SubSeq(SerialResult, 1, 2) = <<"T", "C">>
               <=> SerialRequest.customerTier = "industry"
        /\ SerialRequest.customerTier # "industry"
               => SubSeq(SerialResult, 1, 2) = <<"C", "P">>

\* C16 witness: a 'kangshiting' customer whose code also occurs under TC among
\* the prior serials gets a CP serial.
C16_Witness ==
    /\ serialCall.called
    /\ SerialRequest.customerTier = "kangshiting"
    /\ \E i \in DOMAIN priorInvoices :
          /\ SubSeq(Prior(i), 1, 2) = <<"T", "C">>
          /\ SubSeq(Prior(i), 3, 2 + CodeLength) = SubSeq(SerialResult, 3, 2 + CodeLength)
    /\ SubSeq(SerialResult, 1, 2) = <<"C", "P">>

\* The customer code as the claim describes it, character by character: the
\* k-th character is the k-th letter or digit of customerId, in upper case, and
\* '0' when customerId has fewer than k letters and digits.
AlphanumericPositions(id) == {i \in DOMAIN id : IsAlphanumeric(id[i])}
KthAlphanumeric(id, k) ==
    CHOOSE p \in AlphanumericPositions(id) :
        Cardinality({q \in AlphanumericPositions(id) : q <= p}) = k
UpperOf(c) ==
    IF \E k \in DOMAIN LowerCaseLetters : LowerCaseLetters[k] = c
    THEN UpperCaseLetters[CHOOSE k \in DOMAIN LowerCaseLetters : LowerCaseLetters[k] = c]
    ELSE c
ExpectedCode(id) ==
    [k \in 1..CodeLength |->
        IF k <= Cardinality(AlphanumericPositions(id))
        THEN UpperOf(id[KthAlphanumeric(id, k)])
        ELSE "0"]
CodeOf(serial) == SubSeq(serial, 3, 2 + CodeLength)

\* C17: characters 3 to 6 of the serial are customerId with every character
\* that is not a letter or digit removed, upper-cased, cut to four characters
\* and right-padded with '0'; they are always four characters of A-Z and 0-9.
C17_CustomerCode ==
    serialCall.called =>
        /\ CodeOf(SerialResult) = ExpectedCode(SerialRequest.customerId)
        /\ Len(CodeOf(SerialResult)) = CodeLength
        /\ \A i \in DOMAIN CodeOf(SerialResult) :
              CodeOf(SerialResult)[i] \in UpperCase \cup Digits

\* C17 witness: a customerId with a lower-case letter, a character to remove
\* and fewer than four letters and digits; its code is X700.
C17_Witness ==
    /\ serialCall.called
    /\ SerialRequest.customerId = <<"x", "_", "7">>
    /\ CodeOf(SerialResult) = <<"X", "7", "0", "0">>

\* A serial with a different tier prefix or a different customer code than
\* the call's.
HasOtherPrefix(serial) ==
    \/ Len(serial) < 2 + CodeLength
    \/ SubSeq(serial, 1, 2 + CodeLength) # BasePrefix

InsertAt(s, i, x) == SubSeq(s, 1, i - 1) \o <<x>> \o SubSeq(s, i, Len(s))

\* The generator called again for the same customer with another prior list.
Regenerated(prior) ==
    generateCustomerSerialNumber(SerialRequest.customerName, SerialRequest.customerId,
                                 prior, SerialRequest.customerStartSerial,
                                 SerialRequest.customerTier)

\* C18: prior serials with another tier prefix or another customer code are
\* ignored: removing one from the prior list, or adding one anywhere in it,
\* leaves the serial returned unchanged.
C18_OtherPrefixesIgnored ==
    serialCall.called =>
        /\ \A i \in DOMAIN priorInvoices :
              HasOtherPrefix(Prior(i))
                  => Regenerated(RemoveAt(priorInvoices, i)) = SerialResult
        /\ \A inv \in SerialInvoice :
              HasOtherPrefix(inv.serialNumber)
                  => \A i \in 1..(Len(priorInvoices) + 1) :
                        Regenerated(InsertAt(priorInvoices, i, inv)) = SerialResult

\* C18 witness: the customer's code under the other tier prefix comes first in
\* the prior list with sequence 3, the customer's own serial 00007 second, and
\* the serial returned is 00008.
C18_Witness ==
    /\ serialCall.called
    /\ Len(priorInvoices) = 2
    /\ HasOtherPrefix(Prior(1))
    /\ CodeOf(Prior(1)) = CodeOf(BasePrefix)
    /\ TailNumber(Prior(1)) = 3
    /\ Prior(2) = BasePrefix \o <<"0", "0", "0", "0", "7">>
    /\ SerialResult = BasePrefix \o <<"0", "0", "0", "0", "8">>

SerialTail(serial) == sliceLast(serial, SequenceLength)

\* A tail that is not a decimal number: something other than digits, with or
\* without a sign in front.
NotDecimalNumber(tail) ==
    LET unsigned == IF tail # <<>> /\ tail[1] \in {"+", "-"} THEN Tail(tail) ELSE tail
    IN  unsigned = <<>> \/ ~AllDigits(unsigned)

\* A tail with no number at its start: after leading white space and one sign
\* there is no digit.
NoLeadingNumber(tail) ==
    LET trimmed == TrimStart(tail)
        unsigned == IF trimmed # <<>> /\ trimmed[1] \in {"+", "-"}
                    THEN Tail(trimmed) ELSE trimmed
    IN  unsigned = <<>> \/ unsigned[1] \notin Digits

ReplaceAt(s, i, x) == [s EXCEPT ![i] = x]
SequenceZero == [serialNumber |-> BasePrefix \o <<"0", "0", "0", "0", "0">>]

\* C19 as stated: a matching prior serial whose last five characters are not a
\* decimal number counts as sequence 0, and when every matching prior serial
\* is of this kind the result is the base prefix followed by 00001.
C19_MalformedCountsAsZero_AsStated ==
    serialCall.called =>
        /\ \A i \in MatchingPrior :
              NotDecimalNumber(SerialTail(Prior(i)))
                  => Regenerated(ReplaceAt(priorInvoices, i, SequenceZero)) = SerialResult
        /\ (MatchingPrior # {}
              /\ \A i \in MatchingPrior : NotDecimalNumber(SerialTail(Prior(i))))
                  => SerialResult = FirstSerial

\* C19: a matching prior serial whose last five characters do not start with
\* a number (no digit after leading white space and a sign) counts as sequence
\* 0, and when every matching prior serial is of this kind the result is the
\* base prefix followed by 00001.
C19_MalformedCountsAsZero ==
    serialCall.called =>
        /\ \A i \in MatchingPrior :
              NoLeadingNumber(SerialTail(Prior(i)))
                  => Regenerated(ReplaceAt(priorInvoices, i, SequenceZero)) = SerialResult
        /\ (MatchingPrior # {}
              /\ \A i \in MatchingPrior : NoLeadingNumber(SerialTail(Prior(i))))
                  => SerialResult = FirstSerial

\* C19 witness: the only matching prior serials have tails without a leading
\* number, one of them with digits after a letter, and the result is the base
\* prefix followed by 00001.
C19_Witness ==
    /\ serialCall.called
    /\ MatchingPrior = {1, 2}
    /\ \A i \in MatchingPrior : NoLeadingNumber(SerialTail(Prior(i)))
    /\ SerialTail(Prior(1)) = <<"X", "0", "0", "1", "2">>
    /\ Prior(2) # Prior(1)
    /\ SerialResult = FirstSerial

\* The prior list in every order.
PriorReorderings ==
    {[j \in DOMAIN priorInvoices |-> priorInvoices[p[j]]] :
        p \in {f \in [DOMAIN priorInvoices -> DOMAIN priorInvoices] :
                  \A j, k \in DOMAIN priorInvoices : j # k => f[j] # f[k]}}

\* Lists holding the same set of serials as the prior list: a serial repeated
\* anywhere, or one of two equal entries dropped.
PriorRepetitions ==
    {InsertAt(priorInvoices, j, priorInvoices[i]) :
        i \in DOMAIN priorInvoices, j \in 1..(Len(priorInvoices) + 1)}
    \cup {RemoveAt(priorInvoices, i) :
            i \in {k \in DOMAIN priorInvoices :
                      \E l \in DOMAIN priorInvoices : l # k /\ Prior(l) = Prior(k)}}

MaxInvoiceIds == 2
InvoiceIds == 1..MaxInvoiceIds

\* The sessions stop creating serials beyond this sequence number.
MaxSerialSequence == 2

\* The customers collection as the sessions see it.
Customers ==
    { [id |-> <<"A", "b", "-", "c", "D", "e">>, name |-> "Acme",
       startSerialNumber |-> Some(500), customerTier |-> Undef,
       priceCategory |-> "general"] }

\* a || b on optional strings.
Or(a, b) == IF Truthy(a) THEN a ELSE b

\* generateId(): an id no invoice known to the store or to a session carries.
UsedIds ==
    {d.id : d \in invoiceDocs}
        \cup UNION {{invoices[s][i].id : i \in DOMAIN invoices[s]} : s \in Sessions}
        \cup {currentInvoice[s][1].id : s \in {t \in Sessions : currentInvoice[t] # None}}
generateId == Least(InvoiceIds \ UsedIds)

\* setDoc(ref, invoice) and deleteDoc(ref) on a set of documents keyed by id.
setDoc(docs, invoice) == {d \in docs : d.id # invoice.id} \cup {invoice}
deleteDoc(docs, id) == {d \in docs : d.id # id}

\* snapshot.docs.map(...) followed by the sort on date: the documents in
\* document order; the invoices of the model carry one date.
RECURSIVE SnapshotOf(_)
SnapshotOf(docs) ==
    IF docs = {} THEN <<>>
    ELSE LET first == CHOOSE d \in docs : \A e \in docs : d.id <= e.id
         IN  <<first>> \o SnapshotOf(docs \ {first})

\* /^\d{8}\d{4}$/.test(serialNumber)
IsDateSerial(serial) == Len(serial) = 12 /\ \A i \in DOMAIN serial : serial[i] \in Digits

\* The serial part of handleInputChange('customerName', value) for the invoice
\* open in the editor, against the session's invoices and customers.
SerialAfterCustomerChange(invoice, value, sessionInvoices) ==
    LET isNewInvoice ==
            \/ ~Truthy(invoice.customerName)
            \/ invoice.serialNumber = tempSerial
            \/ endsWith(invoice.serialNumber, <<"0", "0", "0", "0", "0">>)
            \/ endsWith(invoice.serialNumber, <<"0", "0", "0", "0">>)
            \/ IsDateSerial(invoice.serialNumber)
        found == {c \in Customers : c.name = value}
        customer == CHOOSE c \in found : TRUE
        customerInvoices == SelectSeq(sessionInvoices, LAMBDA inv : inv.customerName = value)
        customerTier == Or(customer.customerTier, customer.priceCategory)
    IN  IF isNewInvoice /\ found # {}
        THEN generateCustomerSerialNumber(value, customer.id, customerInvoices,
                                          customer.startSerialNumber, customerTier)
        ELSE invoice.serialNumber

StoreInit ==
    /\ StoreIdle
    /\ ResolverIdle
    /\ SerialIdle
    /\ UiIdle

Roles == {"owner", "staff"}

\* The login screen is rendered once the invoices are loaded.
handleLogin(s) ==
    /\ ~isLoading[s]
    /\ view[s] = "login"
    /\ \E role \in Roles : user' = [user EXCEPT ![s] = Some([role |-> role])]
    /\ view' = [view EXCEPT ![s] = "dashboard"]
    /\ UNCHANGED <<invoiceDocs, invoices, currentInvoice, savedSerials, isLoading,
                   signId, awaiting, resolverVars, serialVars, uiVars>>

\* The effect that follows every change of invoices: the invoice open in the
\* session is replaced by the invoice of the same id in the new list, if any.
SyncCurrentInvoice(current, newInvoices) ==
    IF current # None /\ \E i \in DOMAIN newInvoices : newInvoices[i].id = current[1].id
    THEN Some(newInvoices[CHOOSE i \in DOMAIN newInvoices :
                             /\ newInvoices[i].id = current[1].id
                             /\ \A j \in 1..(i - 1) : newInvoices[j].id # current[1].id])
    ELSE current

\* if (user) setView('dashboard'); else setView('login');
HomeView(st) == IF st.user # None THEN "dashboard" ELSE "login"

\* invoices.find(i => i.id === signId)
TargetInvoice(st) ==
    Find(SelectSeq(st.invoices, LAMBDA i : i.id = st.signId[1]))

\* One run of the URL routing effect (App.tsx 216-246) on the state st of a
\* session that has loaded its invoices; pushState removes the sign parameter.
Route(st) ==
    IF st.signId # None
    THEN IF TargetInvoice(st) # None
         THEN [st EXCEPT !.currentInvoice = TargetInvoice(st), !.view = "sign-only"]
         ELSE IF st.view = "sign-only"
              THEN [st EXCEPT !.signId = None, !.view = HomeView(st)]
              ELSE [st EXCEPT !.view = "sign-only"]
    ELSE IF st.view = "sign-only" /\ st.currentInvoice = None
         THEN [st EXCEPT !.view = HomeView(st)]
         ELSE st

\* The effect runs again while a run changes view, one of its dependencies.
RECURSIVE Routed(_)
Routed(st) == IF Route(st) = st THEN st ELSE Routed(Route(st))

\* The subscribeInvoices callback of session s: setInvoices(data) and
\* setIsLoading(false), and the effects that the new invoices trigger: the
\* routing effect, then the effect on currentInvoice.
onSnapshot(s) ==
    /\ isLoading[s] \/ invoices[s] # SnapshotOf(invoiceDocs)
    /\ LET data == SnapshotOf(invoiceDocs)
           first == Route([invoices |-> data, view |-> view[s], user |-> user[s],
                           signId |-> signId[s],
                           currentInvoice |-> currentInvoice[s]])
           synced == IF SyncCurrentInvoice(currentInvoice[s], data) # currentInvoice[s]
                     THEN [first EXCEPT !.currentInvoice =
                              SyncCurrentInvoice(currentInvoice[s], data)]
                     ELSE first
           st == Routed(synced)
       IN  /\ invoices' = [invoices EXCEPT ![s] = data]
           /\ isLoading' = [isLoading EXCEPT ![s] = FALSE]
           /\ currentInvoice' = [currentInvoice EXCEPT ![s] = st.currentInvoice]
           /\ view' = [view EXCEPT ![s] = st.view]
           /\ signId' = [signId EXCEPT ![s] = st.signId]
    /\ UNCHANGED <<invoiceDocs, savedSerials, user, awaiting, resolverVars, serialVars,
                   uiVars>>

handleCreateNew(s) ==
    /\ view[s] = "dashboard"
    /\ InvoiceIds \ UsedIds # {}
    /\ currentInvoice' = [currentInvoice EXCEPT ![s] =
           Some([id |-> generateId, serialNumber |-> tempSerial,
                 customerName |-> "", signatureBase64 |-> None,
                 status |-> "draft"])]
    /\ view' = [view EXCEPT ![s] = "create"]
    /\ UNCHANGED <<invoiceDocs, invoices, savedSerials, sessionVars, resolverVars, serialVars,
                   uiVars>>

handleSelectInvoice(s) ==
    /\ view[s] = "dashboard"
    /\ \E i \in DOMAIN invoices[s] :
          currentInvoice' = [currentInvoice EXCEPT ![s] = Some(invoices[s][i])]
    /\ view' = [view EXCEPT ![s] = "view"]
    /\ UNCHANGED <<invoiceDocs, invoices, savedSerials, sessionVars, resolverVars, serialVars,
                   uiVars>>

\* The edit button of the toolbar: setView('create').
EditInvoice(s) ==
    /\ view[s] = "view"
    /\ view' = [view EXCEPT ![s] = "create"]
    /\ UNCHANGED <<invoiceDocs, invoices, currentInvoice, savedSerials, sessionVars, resolverVars, serialVars,
                   uiVars>>

\* The back and cancel buttons: setView('dashboard').
onCancel(s) ==
    /\ view[s] \in {"create", "view"}
    /\ view' = [view EXCEPT ![s] = "dashboard"]
    /\ UNCHANGED <<invoiceDocs, invoices, currentInvoice, savedSerials, sessionVars, resolverVars, serialVars,
                   uiVars>>

\* handleInputChange('customerName', value) followed by onUpdate(updated).
handleInputChange(s) ==
    /\ view[s] = "create"
    /\ currentInvoice[s] # None
    /\ \E customer \in Customers :
         LET invoice == currentInvoice[s][1]
             value == customer.name
             serial == SerialAfterCustomerChange(invoice, value, invoices[s])
         IN  /\ OrZero(parseInt(sliceLast(serial, SequenceLength))) <= MaxSerialSequence
             /\ currentInvoice' = [currentInvoice EXCEPT ![s] =
                    Some([invoice EXCEPT !.customerName = value,
                                         !.serialNumber = serial])]
    /\ UNCHANGED <<invoiceDocs, invoices, view, savedSerials, sessionVars, resolverVars, serialVars,
                   uiVars>>

\* Faulty variant: every save stores the invoice as pending.
StatusToSaveAlwaysPending(invoice) == "pending"

\* currentInvoice.status === 'completed' ? 'completed' : 'pending'
StatusToSave(invoice) ==
    IF invoice.status = "completed" THEN "completed" ELSE "pending"

\* handleSaveInvoice up to the await: saveInvoice writes the document; the
\* writer's own listener is fed the write at once, on top of what the session
\* had, and the effect on currentInvoice follows.
SaveInvoiceWrites(s) ==
    /\ view[s] = "create"
    /\ currentInvoice[s] # None
    /\ LET invoice == currentInvoice[s][1]
           invoiceToSave == [invoice EXCEPT !.status = StatusToSave(invoice)]
           local == SnapshotOf(setDoc(Range(invoices[s]), invoiceToSave))
       IN  /\ invoiceDocs' = setDoc(invoiceDocs, invoiceToSave)
           /\ invoices' = [invoices EXCEPT ![s] = local]
           /\ currentInvoice' = [currentInvoice EXCEPT ![s] =
                  SyncCurrentInvoice(currentInvoice[s], local)]
           /\ savedSerials' =
                  IF Truthy(invoice.customerName)
                  THEN savedSerials \cup {invoice.serialNumber}
                  ELSE savedSerials
    /\ UNCHANGED <<user, isLoading, signId, resolverVars, serialVars, uiVars>>

\* handleSaveInvoice with the write acknowledged at once.
handleSaveInvoice(s) ==
    /\ SaveInvoiceWrites(s)
    /\ view' = [view EXCEPT ![s] = "dashboard"]
    /\ UNCHANGED awaiting

\* handleDeleteInvoice up to the await: deleteInvoice removes the document,
\* also from what the writer's own listener shows.
DeleteInvoiceWrites(s) ==
    /\ view[s] = "create"
    /\ currentInvoice[s] # None
    /\ invoiceDocs' = deleteDoc(invoiceDocs, currentInvoice[s][1].id)
    /\ invoices' = [invoices EXCEPT ![s] =
           SnapshotOf(deleteDoc(Range(invoices[s]), currentInvoice[s][1].id))]
    /\ UNCHANGED <<currentInvoice, savedSerials, user, isLoading, signId, resolverVars,
                   serialVars, uiVars>>

\* handleDeleteInvoice with the removal acknowledged at once.
handleDeleteInvoice(s) ==
    /\ DeleteInvoiceWrites(s)
    /\ view' = [view EXCEPT ![s] = "dashboard"]
    /\ UNCHANGED awaiting

\* The signatures a signer can draw.
Signatures == {"sigA", "sigB"}

\* { ...invoice, signatureBase64, status: 'completed' }
Completed(invoice, signatureBase64) ==
    [invoice EXCEPT !.signatureBase64 = Some(signatureBase64), !.status = "completed"]

\* confirmSignature and handleSignAndComplete: offered on an invoice shown
\* without a signature, outside the editor; the signed invoice is written and
\* then made the current one.
handleSignAndComplete(s) ==
    /\ view[s] \in {"view", "sign-only"}
    /\ currentInvoice[s] # None
    /\ currentInvoice[s][1].signatureBase64 = None
    /\ \E signatureBase64 \in Signatures :
         LET completedInvoice == Completed(currentInvoice[s][1], signatureBase64)
         IN  /\ invoiceDocs' = setDoc(invoiceDocs, completedInvoice)
             /\ invoices' = [invoices EXCEPT ![s] =
                    SnapshotOf(setDoc(Range(invoices[s]), completedInvoice))]
             /\ currentInvoice' = [currentInvoice EXCEPT ![s] = Some(completedInvoice)]
    /\ UNCHANGED <<view, savedSerials, sessionVars, resolverVars, serialVars,
                   uiVars>>

\* invoices.filter(inv => invoiceIds.includes(inv.id) && inv.status !== 'completed')
InvoicesToSign(sessionInvoices, invoiceIds) ==
    SelectSeq(sessionInvoices,
              LAMBDA inv : inv.id \in invoiceIds /\ inv.status # "completed")

RECURSIVE SetDocs(_, _)
SetDocs(docs, written) ==
    IF written = <<>> THEN docs
    ELSE SetDocs(setDoc(docs, Head(written)), Tail(written))

\* handleBatchSignConfirm and handleBatchSign: the dashboard's selection is
\* signed with one signature; every invoice of the session's list that is
\* selected and not completed there is written as completed.
handleBatchSign(s) ==
    /\ view[s] = "dashboard"
    /\ \E invoiceIds \in SUBSET {invoices[s][i].id : i \in DOMAIN invoices[s]},
          signatureBase64 \in Signatures :
         LET invoicesToSign == InvoicesToSign(invoices[s], invoiceIds)
             written == [i \in DOMAIN invoicesToSign |->
                            Completed(invoicesToSign[i], signatureBase64)]
             local == SnapshotOf(SetDocs(Range(invoices[s]), written))
         IN  /\ invoiceIds # {}
             /\ invoicesToSign # <<>>
             /\ invoiceDocs' = SetDocs(invoiceDocs, written)
             /\ invoices' = [invoices EXCEPT ![s] = local]
             /\ currentInvoice' = [currentInvoice EXCEPT ![s] =
                    SyncCurrentInvoice(currentInvoice[s], local)]
    /\ UNCHANGED <<view, savedSerials, sessionVars, resolverVars, serialVars,
                   uiVars>>

StoreNext ==
    \E s \in Sessions :
        \/ handleLogin(s)
        \/ onSnapshot(s)
        \/ handleCreateNew(s)
        \/ handleSelectInvoice(s)
        \/ EditInvoice(s)
        \/ onCancel(s)
        \/ handleInputChange(s)
        \/ handleSaveInvoice(s)
        \/ handleDeleteInvoice(s)

StoreSpec == StoreInit /\ [][StoreNext]_vars

\* The sessions create, save, delete and sign invoices, the customer left as
\* handleCreateNew set it.
LifecycleNext ==
    \E s \in Sessions :
        \/ handleLogin(s)
        \/ onSnapshot(s)
        \/ handleCreateNew(s)
        \/ handleSelectInvoice(s)
        \/ EditInvoice(s)
        \/ onCancel(s)
        \/ handleSaveInvoice(s)
        \/ handleDeleteInvoice(s)
        \/ handleSignAndComplete(s)
        \/ handleBatchSign(s)

LifecycleSpec == StoreInit /\ [][LifecycleNext]_vars

(***************************************************************************)
(* Vocabulary of the claims about the invoice store.                       *)
(***************************************************************************)
\* The stored invoices of one customer: the invoices carrying its name.
SameCustomer(d, e) == Truthy(d.customerName) /\ d.customerName = e.customerName

\* C13: no two stored invoices of the same customer carry the same serial,
\* however the sessions that create, fill in and save invoices interleave.
C13_SerialsUniquePerCustomer ==
    \A d, e \in invoiceDocs :
        (d.id # e.id /\ SameCustomer(d, e)) => d.serialNumber # e.serialNumber

\* Session s is given a serial in this step: the invoice in its editor stays
\* the same invoice and its serial changes.
SerialAssigned(s) ==
    /\ currentInvoice[s] # None
    /\ currentInvoice'[s] # None
    /\ currentInvoice'[s][1].id = currentInvoice[s][1].id
    /\ currentInvoice'[s][1].serialNumber # currentInvoice[s][1].serialNumber

\* Session s sees the store as it is.
UpToDate(s) == invoices[s] = SnapshotOf(invoiceDocs)

\* C14: for one customer the sequence numbers given to successive new
\* invoices increase strictly, whatever was created, saved and deleted before:
\* a serial given by a session that sees the store as it is lies above every
\* serial the store ever held for the customer.
C14_SequenceNeverReassigned ==
    [][\A s \in Sessions :
          (SerialAssigned(s) /\ UpToDate(s)) =>
              \A saved \in savedSerials :
                  CodeOf(saved) = CodeOf(currentInvoice'[s][1].serialNumber)
                      => TailNumber(saved) < TailNumber(currentInvoice'[s][1].serialNumber)]_vars

----------------------------------------------------------------------------
\* The invoice lifecycle: draft, pending, completed.

\* The stored invoice of an id, if there is one.
Stored(docs, id) == {d \in docs : d.id = id}

\* C21: the stored status of an invoice only moves forward: no step stores an
\* invoice as draft, and no step stores an invoice that was stored as
\* completed as pending or without its signature.
C21_StatusMovesForward ==
    [][\A d \in invoiceDocs' :
          /\ d.status # "draft"
          /\ \A e \in Stored(invoiceDocs, d.id) :
                 e.status = "completed" =>
                     d.status = "completed" /\ d.signatureBase64 # None]_vars

\* C22 as stated: a step leaves every invoice stored as completed in the
\* store, with its customer and serial number.
C22_CompletedIsImmutable ==
    [][\A e \in invoiceDocs :
          e.status = "completed" =>
              \E d \in invoiceDocs' :
                  /\ d.id = e.id
                  /\ d.customerName = e.customerName
                  /\ d.serialNumber = e.serialNumber]_vars

\* C22: a completed invoice can be opened in the editor; saving it from a
\* session whose copy is completed stores that copy unchanged, completed and
\* with its signature.
C22_SaveKeepsCompleted ==
    [][\A s \in Sessions :
          (handleSaveInvoice(s) /\ currentInvoice[s][1].status = "completed") =>
              currentInvoice[s][1] \in invoiceDocs']_vars

\* A stored completed invoice is open in the editor of a session.
C22_Witness ==
    \E s \in Sessions :
        /\ view[s] = "create"
        /\ currentInvoice[s] # None
        /\ currentInvoice[s][1].status = "completed"
        /\ currentInvoice[s][1] \in invoiceDocs

----------------------------------------------------------------------------
(***************************************************************************)
(* The invoice sheet (part_001): editing the lines of an invoice.          *)
(* The number inputs of the sheet deliver positive integers (min="1");     *)
(* every use of a line's quantity coerces it to a number.                  *)
(***************************************************************************)
MaxItems == 4
MaxEdits == 3
TypedUnitPrices == {70}
TypedSpecifications == {"A1"}

\* types.ts Product
Products ==
    << [id |-> "P1", name |-> "Banner", specification |-> "", price |-> 50,
        sizeOptions |-> Some(<<"A1">>)],
       [id |-> "P2", name |-> "Card", specification |-> "B2", price |-> 60,
        sizeOptions |-> None] >>
TypedDescriptions == {"Banner", "Card", "misc"}

\* types.ts Customer: the customers of the sheet
SheetCustomers ==
    << [id |-> "C9", name |-> "Acme", customerTier |-> "industry",
        priceCategory |-> "industry"],
       [id |-> "C7", name |-> "Bolt", customerTier |-> "industry",
        priceCategory |-> Undef] >>

\* The pricing rules the store delivers to the sheet.
GeneralRule == MkRule("P1", TRUE, Undef, Undef, Undef, PricingTiered)
IndustryRule == MkRule("P1", TRUE, Undef, "industry", Undef, PricingEmpty)
CustomerRule == MkRule("P1", TRUE, "C9", Undef, Undef, PricingMissing)
SheetRuleLists ==
    {<<>>, <<GeneralRule>>, <<IndustryRule, GeneralRule>>,
     <<CustomerRule, GeneralRule>>}

\* Faulty variant: the total leaves out the first line.
calculateTotalWithoutFirst(items) ==
    IF items = <<>> THEN 0
    ELSE LET sum[i \in 1..Len(items)] ==
                 IF i = 1 THEN 0 ELSE sum[i - 1] + items[i].amount
         IN  sum[Len(items)]

\* helpers.ts calculateTotal: items.reduce((sum, item) => sum + item.amount, 0)
calculateTotal(items) ==
    IF items = <<>> THEN 0
    ELSE LET sum[i \in 1..Len(items)] ==
                 (IF i = 1 THEN 0 ELSE sum[i - 1]) + items[i].amount
         IN  sum[Len(items)]

\* x || 1
OrOne(x) == IF x = 0 THEN 1 ELSE x

NewItem(id) ==
    [id |-> id, description |-> "", specification |-> "", quantity |-> 1,
     unitPrice |-> 0, amount |-> 0]

\* customers.find(c => c.name === localInvoice.customerName)
SheetCustomer(customerName) ==
    Find(SelectSeq(SheetCustomers, LAMBDA c : c.name = customerName))

\* customer?.id
IdOf(customer) == IF customer = None THEN Undef ELSE customer[1].id

\* customer?.priceCategory
PriceCategoryOf(customer) ==
    IF customer = None THEN Undef ELSE customer[1].priceCategory

\* products.find(p => p.name === name)
ProductNamed(name) == Find(SelectSeq(Products, LAMBDA p : p.name = name))

\* The call of findPriceForProduct that handleItemChange makes for a change of
\* field to value on item, if it makes one.
PriceRequest(item, field, value, customerName) ==
    LET customer == SheetCustomer(customerName)
        selectedProduct ==
            ProductNamed(IF field = "description" THEN value ELSE item.description)
        specification ==
            IF field = "specification" THEN value
            ELSE IF field = "description" /\ selectedProduct # None
                    /\ (selectedProduct[1].sizeOptions = None
                        \/ selectedProduct[1].sizeOptions[1] = <<>>)
                 THEN selectedProduct[1].specification
                 ELSE item.specification
        quantity == IF field = "quantity" THEN value ELSE OrOne(item.quantity)
    IN  IF selectedProduct = None THEN None
        ELSE Some([productId |-> selectedProduct[1].id,
                   quantity |-> quantity,
                   specification |-> specification,
                   customerId |-> IdOf(customer),
                   customerPriceCategory |-> PriceCategoryOf(customer)])

ResolveRequest(req, rules) ==
    findPriceForProduct(req.productId, req.quantity, req.specification,
                        req.customerId, req.customerPriceCategory, rules)

\* Lines 182-186: the amount for a change of quantity or unitPrice, from the
\* item as it was before the change.
AmountAfterChange(item, updatedItem, field, value) ==
    IF field \in {"quantity", "unitPrice"}
    THEN (IF field = "quantity" THEN value ELSE item.quantity)
         * (IF field = "unitPrice" THEN value ELSE item.unitPrice)
    ELSE updatedItem.amount

\* Faulty variant: a change of quantity or specification leaves the price.
RepricedNever(item, field, value, customerName, rules) ==
    [item EXCEPT ![field] = value]

\* Lines 134-180: the item with the field set and the price of the rules.
Repriced(item, field, value, customerName, rules) ==
    LET changed == [item EXCEPT ![field] = value]
        request == PriceRequest(item, field, value, customerName)
        price == ResolveRequest(request[1], rules)
    IN  IF field = "description" /\ request # None
        THEN LET unitPrice == IF price # None THEN price[1]
                              ELSE ProductNamed(value)[1].price
             IN  [changed EXCEPT !.specification = request[1].specification,
                                 !.unitPrice = unitPrice,
                                 !.amount = request[1].quantity * unitPrice]
        ELSE IF field \in {"specification", "quantity"} /\ request # None
                /\ rules # <<>> /\ price # None
        THEN [changed EXCEPT !.unitPrice = price[1],
                             !.amount = request[1].quantity * price[1]]
        ELSE changed

\* The body of the map in handleItemChange, for the item of the given id.
ItemAfterChange(item, field, value, customerName, rules) ==
    LET updatedItem == Repriced(item, field, value, customerName, rules)
    IN  [updatedItem EXCEPT !.amount = AmountAfterChange(item, updatedItem, field, value)]

\* Whether handleItemChange consults the resolver for this change.
CallsResolver(item, field, value, customerName, rules) ==
    /\ PriceRequest(item, field, value, customerName) # None
    /\ \/ field = "description"
       \/ field \in {"specification", "quantity"} /\ rules # <<>>

ItemFields == {"description", "specification", "quantity", "unitPrice"}
TypedValues(field) ==
    CASE field = "description" -> TypedDescriptions
      [] field = "specification" -> TypedSpecifications
      [] field = "quantity" -> 1..MaxRequestQuantity
      [] field = "unitPrice" -> TypedUnitPrices

\* The sheet opened on the invoice of handleCreateNew (App.tsx 304-327).
EditorInit ==
    /\ pricingRules \in SheetRuleLists
    /\ priceCall = NoCall
    /\ tierList = None
    /\ tierCall = NoCall
    /\ SerialIdle
    /\ StoreIdle
    /\ formTiers = None
    /\ ListIdle
    /\ editCount = 0
    /\ localInvoice = Some([customerName |-> "",
                            items |-> <<NewItem(1), NewItem(2), NewItem(3)>>,
                            totalAmount |-> 0])

handleItemChange(id, field, value) ==
    /\ localInvoice # None
    /\ editCount < MaxEdits
    /\ LET invoice == localInvoice[1]
           newItems == [i \in DOMAIN invoice.items |->
                          IF invoice.items[i].id = id
                          THEN ItemAfterChange(invoice.items[i], field, value,
                                               invoice.customerName, pricingRules)
                          ELSE invoice.items[i]]
           called == {i \in DOMAIN invoice.items :
                        /\ invoice.items[i].id = id
                        /\ CallsResolver(invoice.items[i], field, value,
                                         invoice.customerName, pricingRules)}
       IN  /\ \E i \in DOMAIN invoice.items : invoice.items[i].id = id
           /\ localInvoice' = Some([invoice EXCEPT !.items = newItems,
                                       !.totalAmount = calculateTotal(newItems)])
           /\ priceCall' =
                 IF called = {} THEN priceCall
                 ELSE LET item == invoice.items[CHOOSE i \in called : TRUE]
                          request == PriceRequest(item, field, value,
                                                  invoice.customerName)[1]
                      IN  [called |-> TRUE, request |-> request,
                           result |-> ResolveRequest(request, pricingRules)]
    /\ editCount' = editCount + 1
    /\ UNCHANGED <<pricingRules, tierList, tierCall, serialVars, storeVars, formTiers, listVars>>

\* generateId: an id no line of the invoice has.
NewItemId(items) ==
    CHOOSE id \in 1..(Len(items) + 1) : \A i \in DOMAIN items : items[i].id # id

addItem ==
    /\ localInvoice # None
    /\ editCount < MaxEdits
    /\ Len(localInvoice[1].items) < MaxItems
    /\ LET invoice == localInvoice[1]
           newItems == Append(invoice.items, NewItem(NewItemId(invoice.items)))
       IN  localInvoice' = Some([invoice EXCEPT !.items = newItems])
    /\ editCount' = editCount + 1
    /\ UNCHANGED <<pricingRules, priceCall, tierList, tierCall, serialVars, storeVars,
                   formTiers, listVars>>

removeItem(id) ==
    /\ localInvoice # None
    /\ editCount < MaxEdits
    /\ LET invoice == localInvoice[1]
           newItems == SelectSeq(invoice.items, LAMBDA item : item.id # id)
       IN  /\ \E i \in DOMAIN invoice.items : invoice.items[i].id = id
           /\ localInvoice' = Some([invoice EXCEPT !.items = newItems,
                                       !.totalAmount = calculateTotal(newItems)])
    /\ editCount' = editCount + 1
    /\ UNCHANGED <<pricingRules, priceCall, tierList, tierCall, serialVars, storeVars,
                   formTiers, listVars>>

\* handleInputChange('customerName', value) on the sheet: the lines are kept.
handleCustomerChange(value) ==
    /\ localInvoice # None
    /\ editCount < MaxEdits
    /\ localInvoice[1].customerName # value
    /\ localInvoice' = Some([localInvoice[1] EXCEPT !.customerName = value])
    /\ editCount' = editCount + 1
    /\ UNCHANGED <<pricingRules, priceCall, tierList, tierCall, serialVars, storeVars,
                   formTiers, listVars>>

EditorNext ==
    \/ \E id \in 1..MaxItems, field \in ItemFields :
         \E value \in TypedValues(field) : handleItemChange(id, field, value)
    \/ addItem
    \/ \E id \in 1..MaxItems : removeItem(id)
    \/ \E c \in DOMAIN SheetCustomers : handleCustomerChange(SheetCustomers[c].name)

EditorSpec == EditorInit /\ [][EditorNext]_vars

----------------------------------------------------------------------------
\* The customer's tier: customerTier, falling back to the legacy priceCategory.
TierOf(customer) == Or(customer.customerTier, customer.priceCategory)

\* The customers a resolver call was made for.
CalledFor == {i \in DOMAIN SheetCustomers :
                 SheetCustomers[i].id = priceCall.request.customerId}

\* C23: the price category handleItemChange passes to findPriceForProduct is
\* the customer's tier, and a customer of tier 'industry' without a rule of
\* their own is priced by the first rule of price category 'industry'.
C23_TierIsPriceCategory ==
    priceCall.called =>
        \A i \in CalledFor :
            LET customer == SheetCustomers[i]
                ownRules == SelectSeq(pricingRules,
                                LAMBDA r : r.customerId = customer.id)
                industryRules == SelectSeq(pricingRules,
                                     LAMBDA r : r.priceCategory = "industry")
            IN  /\ priceCall.request.customerPriceCategory = TierOf(customer)
                /\ (TierOf(customer) = "industry" /\ ownRules = <<>>
                    /\ industryRules # <<>>) =>
                       priceCall.result =
                           Some(findPriceInTiers(industryRules[1].tiers,
                                                 priceCall.request.quantity,
                                                 industryRules[1].basePrice))

----------------------------------------------------------------------------
\* The price the rules give a line for the customer of the invoice.
RulePrice(line, invoice, rules) ==
    LET product == ProductNamed(line.description)
        customer == SheetCustomer(invoice.customerName)
    IN  IF product = None THEN None
        ELSE findPriceForProduct(product[1].id, line.quantity, line.specification,
                                 IdOf(customer), PriceCategoryOf(customer), rules)

\* Every line carries the price of the rules, where they give one.
AllLinesPriced(invoice, rules) ==
    \A i \in DOMAIN invoice.items :
        RulePrice(invoice.items[i], invoice, rules) # None =>
            invoice.items[i].unitPrice = RulePrice(invoice.items[i], invoice, rules)[1]

\* A change of a line's quantity or specification.
QuantityOrSpecificationChange(id) ==
    \E field \in {"quantity", "specification"} :
        \E value \in TypedValues(field) : handleItemChange(id, field, value)

CustomerChange ==
    \E c \in DOMAIN SheetCustomers : handleCustomerChange(SheetCustomers[c].name)

----------------------------------------------------------------------------
(***************************************************************************)
(* The pricing form of the settings (Settings.tsx 242-275): the tiers of   *)
(* one rule of localPricingRules. A tier's id is not read by the handlers. *)
(***************************************************************************)
\* rule.tiers.length >= 5
TierLimit == 5

\* rule.basePrice of the rule in the form
FormBasePrice == 50

\* Math.max(...rule.tiers.map(t => t.maxQuantity || t.minQuantity)), or 0
MaxMinQty(tiers) ==
    LET ends == {IF tiers[i].maxQuantity # None /\ tiers[i].maxQuantity[1] # 0
                 THEN tiers[i].maxQuantity[1] ELSE tiers[i].minQuantity :
                     i \in DOMAIN tiers}
    IN  IF tiers = <<>> THEN 0 ELSE CHOOSE m \in ends : \A n \in ends : n <= m

\* A rule with no tiers is open in the form.
SettingsInit ==
    /\ formTiers = Some(<<>>)
    /\ localInvoice = None
    /\ editCount = 0
    /\ ListIdle
    /\ ResolverIdle
    /\ SerialIdle
    /\ StoreIdle

addPricingTier ==
    /\ formTiers # None
    /\ Len(formTiers[1]) < TierLimit
    /\ Len(formTiers[1]) < MaxTiers
    /\ MaxMinQty(formTiers[1]) <= MaxQuantity
    /\ formTiers' = Some(Append(formTiers[1],
                             [minQuantity |-> MaxMinQty(formTiers[1]) + 1,
                              maxQuantity |-> None,
                              price |-> FormBasePrice]))
    /\ UNCHANGED <<resolverVars, serialVars, storeVars, sheetVars, listVars>>

\* The values the inputs of a tier deliver: Number(e.target.value), and
\* undefined for an emptied maxQuantity.
TierFieldValues(field) ==
    CASE field = "minQuantity" -> 1..MaxQuantity
      [] field = "maxQuantity" -> {None} \cup {Some(n) : n \in 1..MaxQuantity}
      [] field = "price" -> TierPrices

updatePricingTier(tierIndex, field, value) ==
    /\ formTiers # None
    /\ tierIndex \in DOMAIN formTiers[1]
    /\ formTiers' = Some([formTiers[1] EXCEPT ![tierIndex][field] = value])
    /\ UNCHANGED <<resolverVars, serialVars, storeVars, sheetVars, listVars>>

removePricingTier(tierIndex) ==
    /\ formTiers # None
    /\ tierIndex \in DOMAIN formTiers[1]
    /\ formTiers' = Some([i \in 1..(Len(formTiers[1]) - 1) |->
                             IF i < tierIndex THEN formTiers[1][i]
                             ELSE formTiers[1][i + 1]])
    /\ UNCHANGED <<resolverVars, serialVars, storeVars, sheetVars, listVars>>

SettingsNext ==
    \/ addPricingTier
    \/ \E tierIndex \in 1..MaxTiers, field \in {"minQuantity", "maxQuantity", "price"} :
         \E value \in TierFieldValues(field) : updatePricingTier(tierIndex, field, value)
    \/ \E tierIndex \in 1..MaxTiers : removePricingTier(tierIndex)

SettingsSpec == SettingsInit /\ [][SettingsNext]_vars

\* The quantities of a tier's range [minQuantity, maxQuantity or unbounded],
\* up to the largest quantity a tier of the form can name.
TierRange(t) ==
    {q \in 1..(MaxQuantity + 1) :
        q >= t.minQuantity /\ (t.maxQuantity = None \/ q <= t.maxQuantity[1])}

\* C25: the tiers of the rule in the form have pairwise non-overlapping
\* quantity ranges.
C25_TiersDoNotOverlap ==
    formTiers # None =>
        \A i, j \in DOMAIN formTiers[1] :
            i # j => TierRange(formTiers[1][i]) \cap TierRange(formTiers[1][j]) = {}

----------------------------------------------------------------------------
\* C26: every line of the invoice being edited has
\* amount = quantity x unitPrice.
C26_AmountIsQuantityTimesPrice ==
    localInvoice # None =>
        \A i \in DOMAIN localInvoice[1].items :
            LET line == localInvoice[1].items[i]
            IN  line.amount = line.quantity * line.unitPrice

----------------------------------------------------------------------------
RECURSIVE SumOfAmounts(_)
SumOfAmounts(items) ==
    IF items = <<>> THEN 0 ELSE Head(items).amount + SumOfAmounts(Tail(items))

\* C27: the totalAmount of the invoice being edited is the sum of the amounts
\* of its current lines.
C27_TotalIsSumOfAmounts ==
    localInvoice # None =>
        localInvoice[1].totalAmount = SumOfAmounts(localInvoice[1].items)

\* Lines were priced, one was removed and one added, and a total remains.
C27_Witness ==
    /\ localInvoice # None
    /\ localInvoice[1].totalAmount > 0
    /\ \E i \in DOMAIN localInvoice[1].items : localInvoice[1].items[i].id = 4
    /\ \E id \in 1..3 :
         \A i \in DOMAIN localInvoice[1].items : localInvoice[1].items[i].id # id

----------------------------------------------------------------------------
\* A stored invoice is completed exactly if it carries a signature.
CompletedIffSigned(docs) ==
    \A d \in docs : d.status = "completed" <=> d.signatureBase64 # None

\* C28: in every state of the store an invoice is completed exactly if it
\* carries a signature, and a handleBatchSign leaves every invoice that is
\* stored as completed as it is, its signature included.
C28_BatchSignLeavesCompleted ==
    [][/\ CompletedIffSigned(invoiceDocs')
       /\ \A s \in Sessions :
             handleBatchSign(s) =>
                 \A e \in invoiceDocs : e.status = "completed" => e \in invoiceDocs']_vars

----------------------------------------------------------------------------
(***************************************************************************)
(* The optimistic save handlers (App.tsx 135-200), on the product list;    *)
(* handleUpdateCustomers, handleUpdatePricingRules and                     *)
(* handleUpdateRevenueTargets are the same code on their own list. A list  *)
(* is the set of its documents. The subscription shows the collection with *)
(* the writes in flight applied to it.                                     *)
(***************************************************************************)
MaxListItems == 1
MaxInFlight == 2
ProductNames == {"Banner", "Card"}

ProductDocs == [id : 1..MaxListItems, name : ProductNames]
ProductLists ==
    {list \in SUBSET ProductDocs : \A a, b \in list : a.id = b.id => a = b}

\* batch.set(ref, product) for every product of the list
BatchSet(docs, list) ==
    {d \in docs : \A p \in list : p.id # d.id} \cup list

\* The collection as the session's listener sees it: the stored documents with
\* the writes in flight applied in their order.
RECURSIVE ListView(_, _)
ListView(docs, pending) ==
    IF pending = <<>> THEN docs
    ELSE ListView(BatchSet(docs, Head(pending).newProducts), Tail(pending))

\* The list has been loaded from the store.
ListInit ==
    /\ productDocs \in ProductLists
    /\ products = productDocs
    /\ lastSnapshot = productDocs
    /\ pendingSaves = <<>>
    /\ lastSaved = None
    /\ ResolverIdle
    /\ SerialIdle
    /\ StoreIdle
    /\ localInvoice = None
    /\ editCount = 0
    /\ formTiers = None

\* handleUpdateProducts up to the await: previousProducts is kept for the
\* catch block, the list is replaced and the batch is sent.
handleUpdateProducts(newProducts) ==
    /\ Len(pendingSaves) < MaxInFlight
    /\ products' = newProducts
    /\ pendingSaves' = Append(pendingSaves,
                          [previousProducts |-> products,
                           newProducts |-> newProducts,
                           snapshotSeen |-> FALSE])
    /\ UNCHANGED <<productDocs, lastSnapshot, lastSaved, resolverVars, serialVars,
                   storeVars, sheetVars, formTiers>>

\* The subscribeProducts callback: setProducts(data).
onProductsSnapshot ==
    /\ ListView(productDocs, pendingSaves) # lastSnapshot
    /\ products' = ListView(productDocs, pendingSaves)
    /\ lastSnapshot' = ListView(productDocs, pendingSaves)
    /\ pendingSaves' = [k \in DOMAIN pendingSaves |->
                           [pendingSaves[k] EXCEPT !.snapshotSeen = TRUE]]
    /\ UNCHANGED <<productDocs, lastSaved, resolverVars, serialVars, storeVars,
                   sheetVars, formTiers>>

\* The oldest batch in flight is committed: the try block ends.
batchSaveSucceeds ==
    /\ pendingSaves # <<>>
    /\ productDocs' = BatchSet(productDocs, Head(pendingSaves).newProducts)
    /\ lastSaved' = Some(Head(pendingSaves).newProducts)
    /\ pendingSaves' = Tail(pendingSaves)
    /\ UNCHANGED <<products, lastSnapshot, resolverVars, serialVars, storeVars,
                   sheetVars, formTiers>>

\* catch: setProducts(previousProducts)
Reverted(save, current) == save.previousProducts

\* The oldest batch in flight is rejected: the catch block runs. An empty
\* list is not sent (db.ts 367) and cannot be rejected.
batchSaveFails ==
    /\ pendingSaves # <<>>
    /\ Head(pendingSaves).newProducts # {}
    /\ products' = Reverted(Head(pendingSaves), products)
    /\ pendingSaves' = Tail(pendingSaves)
    /\ UNCHANGED <<productDocs, lastSnapshot, lastSaved, resolverVars, serialVars,
                   storeVars, sheetVars, formTiers>>

\* Another client writes a product.
ExternalWrite(product) ==
    /\ BatchSet(productDocs, {product}) # productDocs
    /\ productDocs' = BatchSet(productDocs, {product})
    /\ UNCHANGED <<products, pendingSaves, lastSnapshot, lastSaved, resolverVars,
                   serialVars, storeVars, sheetVars, formTiers>>

ListNext ==
    \/ \E newProducts \in ProductLists : handleUpdateProducts(newProducts)
    \/ onProductsSnapshot
    \/ batchSaveSucceeds
    \/ batchSaveFails
    \/ \E product \in ProductDocs : ExternalWrite(product)

ListSpec == ListInit /\ [][ListNext]_vars

\* C29: whenever no save is in flight the local list is the latest snapshot
\* or the list of the last successful save, and a failed save does not leave
\* the local list behind a snapshot delivered while the save was in flight.
C29_LocalListIsCurrent ==
    [][/\ pendingSaves' = <<>> =>
             products' = lastSnapshot' \/ Some(products') = lastSaved'
       /\ (batchSaveFails /\ Head(pendingSaves).snapshotSeen) =>
             products' = lastSnapshot]_vars

----------------------------------------------------------------------------
(***************************************************************************)
(* The App view machine: login and logout, the sign link, the navigation   *)
(* bar, and the handlers whose continuation after an await sets the view.  *)
(* An effect runs before the next event is handled.                        *)
(***************************************************************************)
\* The views of the main layout (App.tsx 471-655).
MainViews == {"dashboard", "reports", "settings", "create", "view"}

\* Session s1 is opened without a sign link, session s2 with or without one.
ViewInit ==
    /\ invoiceDocs = {}
    /\ invoices = [s \in Sessions |-> <<>>]
    /\ currentInvoice = [s \in Sessions |-> None]
    /\ view = [s \in Sessions |-> "login"]
    /\ savedSerials = {}
    /\ user = [s \in Sessions |-> None]
    /\ isLoading = [s \in Sessions |-> TRUE]
    /\ signId \in {f \in [Sessions -> {None} \cup {Some(id) : id \in InvoiceIds}] :
                      f["s1"] = None}
    /\ awaiting = [s \in Sessions |-> {}]
    /\ ResolverIdle
    /\ SerialIdle
    /\ UiIdle

\* The links and buttons of the main layout that set the view: the logo and
\* navigation links, the settings icon shown to the owner, the back buttons.
Navigate(s, target) ==
    /\ view[s] \in MainViews
    /\ \/ target \in {"dashboard", "reports"}
       \/ target = "settings" /\ user[s] # None /\ user[s][1].role = "owner"
    /\ view[s] # target
    /\ view' = [view EXCEPT ![s] = target]
    /\ UNCHANGED <<invoiceDocs, invoices, currentInvoice, savedSerials, sessionVars,
                   resolverVars, serialVars, uiVars>>

\* The logout button of the navigation bar; both branches of the handler end
\* in setUser(null) and setView('login').
handleLogout(s) ==
    /\ view[s] \in MainViews
    /\ user' = [user EXCEPT ![s] = None]
    /\ view' = [view EXCEPT ![s] = "login"]
    /\ UNCHANGED <<invoiceDocs, invoices, currentInvoice, savedSerials, isLoading,
                   signId, awaiting, resolverVars, serialVars, uiVars>>

\* handleSaveInvoice suspended at await saveInvoice(invoiceToSave).
handleSaveInvoiceAwaits(s) ==
    /\ "save" \notin awaiting[s]
    /\ SaveInvoiceWrites(s)
    /\ awaiting' = [awaiting EXCEPT ![s] = @ \cup {"save"}]
    /\ UNCHANGED view

\* handleSaveInvoice resumed: setView('dashboard').
handleSaveInvoiceResumes(s) ==
    /\ "save" \in awaiting[s]
    /\ awaiting' = [awaiting EXCEPT ![s] = @ \ {"save"}]
    /\ view' = [view EXCEPT ![s] = "dashboard"]
    /\ UNCHANGED <<invoiceDocs, invoices, currentInvoice, savedSerials, user, isLoading,
                   signId, resolverVars, serialVars, uiVars>>

\* handleDeleteInvoice suspended at await deleteInvoice(currentInvoice.id).
handleDeleteInvoiceAwaits(s) ==
    /\ "delete" \notin awaiting[s]
    /\ DeleteInvoiceWrites(s)
    /\ awaiting' = [awaiting EXCEPT ![s] = @ \cup {"delete"}]
    /\ UNCHANGED view

\* handleDeleteInvoice resumed: setView('dashboard').
handleDeleteInvoiceResumes(s) ==
    /\ "delete" \in awaiting[s]
    /\ awaiting' = [awaiting EXCEPT ![s] = @ \ {"delete"}]
    /\ view' = [view EXCEPT ![s] = "dashboard"]
    /\ UNCHANGED <<invoiceDocs, invoices, currentInvoice, savedSerials, user, isLoading,
                   signId, resolverVars, serialVars, uiVars>>

\* The session opened without a link is the one that logs in and works in the
\* main layout; the session opened with a link follows the link.
LoginSessions == {"s1"}

ViewNext ==
    \/ \E s \in Sessions :
           \/ onSnapshot(s)
           \/ handleSignAndComplete(s)
    \/ \E s \in LoginSessions :
           \/ handleLogin(s)
           \/ handleLogout(s)
           \/ \E target \in MainViews : Navigate(s, target)
           \/ handleCreateNew(s)
           \/ handleSelectInvoice(s)
           \/ EditInvoice(s)
           \/ handleSaveInvoiceAwaits(s)
           \/ handleSaveInvoiceResumes(s)
           \/ handleDeleteInvoiceAwaits(s)
           \/ handleDeleteInvoiceResumes(s)

ViewSpec == ViewInit /\ [][ViewNext]_vars

\* C30: the views of the main layout are active only while a user is logged
\* in, and the settings only for the owner.
C30_MainViewsNeedUser ==
    \A s \in Sessions :
        /\ view[s] \in MainViews => user[s] # None
        /\ view[s] = "settings" => user[s] # None /\ user[s][1].role = "owner"
====
